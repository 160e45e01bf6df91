-------------------------- MODULE ConnectionProofs --------------------------
(***************************************************************************)
(* Proofs about how a connection is used: how messages are cut out of its  *)
(* bytes (Framing) and who holds it (ConnectionPool).                      *)
(***************************************************************************)
EXTENDS Framing, ConnectionPool, FiniteSetTheorems, TLAPS

(***************************************************************************)
(* Framing, for any size of header and body and any number of messages.    *)
(* A reader that has not been torn is at a boundary of messages when it    *)
(* reads a header, and inside a message that was sent when it reads a      *)
(* body: so the length it goes by is the one that was announced.           *)
(***************************************************************************)
Frame == [at : Nat, body : 0 .. FrMaxBody + 1]

\* The types, stronger than FrTypeOK by those of the reader's fields.
FrTypes ==
    /\ frReader \in {"server", "client"}
    /\ frames \subseteq Frame
    /\ end \in Nat /\ arrived \in Nat /\ taken \in Nat /\ from \in Nat
    /\ want \in 0 .. FrMaxBody + 1
    /\ taken <= arrived /\ arrived <= end
    /\ part \in {"header", "body", "closed"}
    /\ got \in Seq(Frame)
    /\ torn \in BOOLEAN

\* A position at which a message begins, or will.
Boundary(p) == p = end \/ \E f \in frames : f.at = p

\* The messages sent lie one after the other, from the first byte to the last.
Chained ==
    /\ Boundary(0)
    /\ \A f \in frames : Boundary(f.at + FrHeader + f.body)
    /\ \A f \in frames : f.at + FrHeader + f.body <= end
    /\ \A f, g \in frames : f.at = g.at => f = g

Untorn == frReader = "client" \/ ~torn

\* Where the message after those handed on begins.
NextAt == IF Len(got) = 0 THEN 0 ELSE got[Len(got)].at + FrHeader + got[Len(got)].body

\* Where an untorn reader is.
InStep ==
    /\ part = "header" => taken = NextAt /\ Boundary(taken)
    /\ part = "body" => /\ [at |-> from, body |-> want] \in frames
                        /\ from = NextAt /\ taken = from + FrHeader

FrInv ==
    /\ FrTypes
    /\ Chained
    /\ Untorn => InStep
    /\ FramesAsSent

-----------------------------------------------------------------------------
\* The bytes at a boundary are read as what was sent there.
LEMMA HeaderIsTrue ==
    ASSUME FrTypes, Boundary(taken), arrived - taken >= FrHeader,
           NEW n \in Announced(taken)
    PROVE  [at |-> taken, body |-> n] \in frames
<1>1. taken # end
  BY FramingAssumption DEF FrTypes
<1>2. PICK f \in frames : f.at = taken
  BY <1>1 DEF Boundary
<1>3. n \in {h.body : h \in {g \in frames : g.at = taken}}
  BY <1>2 DEF Announced
<1>4. PICK g \in frames : g.at = taken /\ n = g.body
  BY <1>3
<1>5. g = [at |-> g.at, body |-> g.body]
  BY DEF FrTypes, Frame
<1> QED
  BY <1>4, <1>5

\* Handing on the next message that was sent keeps the order.
LEMMA HandOnNext ==
    ASSUME FrTypes, Chained, FramesAsSent, Untorn, UNCHANGED <<frReader, frames, end, torn>>,
           NEW start, NEW n,
           [at |-> start, body |-> n] \in frames, start = NextAt,
           HandOn(start, n), taken' = start + FrHeader + n
    PROVE  FramesAsSent' /\ InStep' /\ part' = "header" /\ got' \in Seq(Frame)
<1> DEFINE m == [at |-> start, body |-> n]
<1>1. m \in Frame /\ m.at = start /\ m.body = n
  BY DEF FrTypes
<1>2. got' = Append(got, m) /\ got \in Seq(Frame)
  BY DEF HandOn, FrTypes
<1>3. /\ Len(got) \in Nat /\ Len(got') = Len(got) + 1
      /\ got'[Len(got) + 1] = m
      /\ \A i \in 1 .. Len(got) : got'[i] = got[i]
      /\ got' \in Seq(Frame)
  BY <1>1, <1>2
<1>4. FramesAsSent'
  <2> SUFFICES ASSUME NEW i \in 1 .. Len(got')
               PROVE  /\ got'[i] \in frames
                      /\ got'[i].at = IF i = 1 THEN 0 ELSE got'[i-1].at + FrHeader + got'[i-1].body
    BY DEF FramesAsSent
  <2>1. CASE i \in 1 .. Len(got)
    <3>1. got'[i] = got[i] /\ (i # 1 => got'[i-1] = got[i-1])
      BY <1>3, <2>1
    <3> QED
      BY <2>1, <3>1 DEF FramesAsSent, Untorn
  <2>2. CASE i = Len(got) + 1
    <3>1. i # 1 => got'[i-1] = got[Len(got)]
      BY <1>3, <2>2
    <3> QED
      BY <1>1, <1>3, <2>2, <3>1 DEF NextAt
  <2> QED
    BY <1>3, <2>1, <2>2
<1>5. NextAt' = start + FrHeader + n
  BY <1>1, <1>3 DEF NextAt
<1>6. Boundary(start + FrHeader + n)'
  BY <1>1 DEF Chained, Boundary
<1> QED
  BY <1>3, <1>4, <1>5, <1>6 DEF InStep, HandOn, Boundary

-----------------------------------------------------------------------------
LEMMA FrInitInv == FrInit => FrInv
<1> SUFFICES ASSUME FrInit PROVE FrInv
  OBVIOUS
<1>1. got = <<>> /\ <<>> \in Seq(Frame) /\ Len(got) = 0
  BY DEF FrInit
<1>2. FrTypes
  <2>1. 0 \in 0 .. FrMaxBody + 1
    BY FramingAssumption
  <2>2. got \in Seq(Frame)
    BY <1>1
  <2>3. torn \in BOOLEAN /\ part \in {"header", "body", "closed"}
    BY DEF FrInit
  <2>4. /\ frReader \in {"server", "client"}
        /\ frames \subseteq Frame
        /\ end \in Nat /\ arrived \in Nat /\ taken \in Nat /\ from \in Nat
        /\ want \in 0 .. FrMaxBody + 1
        /\ taken <= arrived /\ arrived <= end
    BY <2>1 DEF FrInit
  <2> QED
    BY <2>2, <2>3, <2>4 DEF FrTypes
<1>3. Chained
  BY DEF FrInit, Chained, Boundary
<1>4. InStep
  BY <1>1 DEF FrInit, InStep, NextAt, Boundary
<1>5. FramesAsSent
  BY <1>1 DEF FramesAsSent
<1> QED
  BY <1>2, <1>3, <1>4, <1>5 DEF FrInv

\* A message sent extends the chain.
LEMMA PeerSendsInv ==
    ASSUME FrInv, NEW n \in 0 .. FrMaxBody + 1, PeerSends(n)
    PROVE  FrInv'
<1> DEFINE f == [at |-> end, body |-> n]
<1> USE DEF PeerSends
<1>1. /\ f \in Frame /\ f.at = end /\ f.body = n
      /\ frames' = frames \cup {f} /\ end' = end + FrHeader + n
  BY DEF FrInv, FrTypes, Frame
<1>2. end < end' /\ end' \in Nat
  BY <1>1, FramingAssumption DEF FrInv, FrTypes
<1>3. FrTypes'
  BY <1>1, <1>2 DEF FrInv, FrTypes
<1>4. \A p : Boundary(p) => Boundary(p)'
  BY <1>1 DEF Boundary
<1>5. \A g \in frames : g.at \in Nat /\ g.body \in Nat /\ g.at < end
  BY FramingAssumption DEF FrInv, FrTypes, Frame, Chained
<1>6. Chained'
  <2>1. Boundary(0)'
    BY <1>4 DEF FrInv, Chained
  <2>2. \A g \in frames' : Boundary(g.at + FrHeader + g.body)'
    <3> SUFFICES ASSUME NEW g \in frames'
                 PROVE  Boundary(g.at + FrHeader + g.body)'
      OBVIOUS
    <3>1. CASE g \in frames
      BY <1>4, <3>1 DEF FrInv, Chained
    <3>2. CASE g = f
      BY <1>1, <3>2 DEF Boundary
    <3> QED
      BY <1>1, <3>1, <3>2
  <2>3. \A g \in frames' : g.at + FrHeader + g.body <= end'
    <3> SUFFICES ASSUME NEW g \in frames
                 PROVE  g.at + FrHeader + g.body <= end'
      BY <1>1, <1>2
    <3>1. g.at + FrHeader + g.body <= end
      BY DEF FrInv, Chained
    <3> QED
      BY <1>2, <1>5, <3>1, FramingAssumption DEF FrInv, FrTypes
  <2>4. \A g, h \in frames' : g.at = h.at => g = h
    BY <1>1, <1>5 DEF FrInv, FrTypes, Chained
  <2> QED
    BY <2>1, <2>2, <2>3, <2>4 DEF Chained
<1>7. Untorn' => InStep'
  BY <1>1, <1>4 DEF FrInv, Untorn, InStep, NextAt, Boundary
<1>8. FramesAsSent'
  BY <1>1 DEF FrInv, FramesAsSent
<1> QED
  BY <1>3, <1>6, <1>7, <1>8 DEF FrInv

\* The reader's steps leave what was sent alone.
LEMMA ChainKept ==
    ASSUME Chained, UNCHANGED <<frames, end>>
    PROVE  Chained' /\ \A p : Boundary(p)' <=> Boundary(p)
BY DEF Chained, Boundary

LEMMA ReadHeaderInv ==
    ASSUME FrInv, ReadHeader
    PROVE  FrInv'
<1>1. PICK n \in Announced(taken) :
        /\ want' = n
        /\ IF n = 0 THEN HandOn(taken, 0)
           ELSE /\ part' = IF n > FrMaxBody THEN "closed" ELSE "body"
                /\ UNCHANGED got
  BY DEF ReadHeader
<1>2. /\ part = "header" /\ arrived - taken >= FrHeader
      /\ taken' = taken + FrHeader /\ from' = taken
      /\ UNCHANGED <<frReader, frames, end, arrived, torn>>
  BY DEF ReadHeader
<1>3. n \in 0 .. FrMaxBody + 1
  BY DEF Announced, FrInv, FrTypes, Frame
<1>4. FrTypes'
  <2>1. [at |-> taken, body |-> 0] \in Frame
    BY FramingAssumption DEF FrInv, FrTypes, Frame
  <2>2. got' \in Seq(Frame) /\ part' \in {"header", "body", "closed"}
    BY <1>1, <2>1 DEF HandOn, FrInv, FrTypes
  <2> QED
    BY <1>1, <1>2, <1>3, <2>2, FramingAssumption DEF FrInv, FrTypes
<1>5. Chained'
  BY <1>2, ChainKept DEF FrInv
<1>6. CASE ~Untorn
  BY <1>2, <1>4, <1>5, <1>6 DEF FrInv, Untorn, FramesAsSent
<1>7. CASE Untorn
  <2>1. Boundary(taken) /\ taken = NextAt
    BY <1>2, <1>7 DEF FrInv, InStep
  <2>2. [at |-> taken, body |-> n] \in frames
    BY <1>2, <2>1, HeaderIsTrue DEF FrInv
  <2>3. CASE n = 0
    <3>1. taken' = taken + FrHeader + 0
      BY <1>2, FramingAssumption DEF FrInv, FrTypes
    <3>2. FramesAsSent' /\ InStep'
      BY <1>1, <1>2, <1>7, <2>1, <2>2, <2>3, <3>1, HandOnNext DEF FrInv
    <3> QED
      BY <1>4, <1>5, <3>2 DEF FrInv
  <2>4. CASE n # 0
    <3>1. InStep'
      BY <1>1, <1>2, <2>1, <2>2, <2>4 DEF InStep, NextAt
    <3>2. FramesAsSent'
      BY <1>1, <1>2, <2>4 DEF FrInv, FramesAsSent
    <3> QED
      BY <1>4, <1>5, <3>1, <3>2 DEF FrInv
  <2> QED
    BY <2>3, <2>4
<1> QED
  BY <1>6, <1>7

LEMMA ReadBodyInv ==
    ASSUME FrInv, ReadBody
    PROVE  FrInv'
<1> USE DEF ReadBody
<1>1. FrTypes'
  <2>1. [at |-> from, body |-> want] \in Frame
    BY DEF FrInv, FrTypes, Frame
  <2>2. got' \in Seq(Frame) /\ part' = "header"
    BY <2>1 DEF HandOn, FrInv, FrTypes
  <2> QED
    BY <2>2, FramingAssumption DEF FrInv, FrTypes
<1>2. Chained'
  BY ChainKept DEF FrInv
<1>3. CASE ~Untorn
  BY <1>1, <1>2, <1>3 DEF FrInv, Untorn, FramesAsSent
<1>4. CASE Untorn
  <2>1. [at |-> from, body |-> want] \in frames /\ from = NextAt /\ taken = from + FrHeader
    BY <1>4 DEF FrInv, InStep
  <2>2. FramesAsSent' /\ InStep'
    BY <1>4, <2>1, HandOnNext DEF FrInv
  <2> QED
    BY <1>1, <1>2, <2>2 DEF FrInv
<1> QED
  BY <1>3, <1>4

\* The client closes; the server stays in step only if nothing had been taken.
LEMMA DeadlinePassesInv ==
    ASSUME FrInv, DeadlinePasses
    PROVE  FrInv'
<1> USE DEF DeadlinePasses
<1>1. FrTypes'
  <2>1. part' \in {"header", "body", "closed"} /\ torn' \in BOOLEAN
    <3>1. CASE frReader = "server"
      BY <3>1
    <3>2. CASE frReader # "server"
      BY <3>2 DEF FrInv, FrTypes
    <3> QED
      BY <3>1, <3>2
  <2> QED
    BY <2>1 DEF FrInv, FrTypes
<1>2. Chained' /\ \A p : Boundary(p)' <=> Boundary(p)
  BY ChainKept DEF FrInv
<1>3. FramesAsSent'
  BY DEF FrInv, FrTypes, FramesAsSent
<1>4. Untorn' => InStep'
  <2>1. CASE frReader = "server"
    BY <1>2, <2>1 DEF FrInv, FrTypes, Untorn, InStep, NextAt, Starved
  <2>2. CASE frReader # "server"
    BY <2>2 DEF InStep
  <2> QED
    BY <2>1, <2>2
<1> QED
  BY <1>1, <1>2, <1>3, <1>4 DEF FrInv

\* Bytes arrive, the connection ends, or nothing happens.
LEMMA OtherStepsInv ==
    ASSUME FrInv, Arrive \/ FrReadFails \/ UNCHANGED frVars
    PROVE  FrInv'
<1> USE DEF Arrive, FrReadFails, frVars
<1>1. FrTypes'
  BY DEF FrInv, FrTypes
<1>2. Chained' /\ \A p : Boundary(p)' <=> Boundary(p)
  BY ChainKept DEF FrInv
<1>3. FramesAsSent'
  BY DEF FrInv, FramesAsSent
<1>4. Untorn' => InStep'
  BY <1>2 DEF FrInv, Untorn, InStep, NextAt
<1> QED
  BY <1>1, <1>2, <1>3, <1>4 DEF FrInv

LEMMA FrInvInvariant == FrSpec => []FrInv
<1>1. FrInv /\ [FrNext]_frVars => FrInv'
  BY PeerSendsInv, ReadHeaderInv, ReadBodyInv, DeadlinePassesInv, OtherStepsInv
     DEF FrNext
<1> QED
  BY FrInitInv, <1>1, PTL DEF FrSpec

\* The types of the framing hold for any sizes: the reader never takes more
\* than has arrived, nor does more arrive than was sent.
THEOREM FramingTypeCorrect == FrSpec => []FrTypeOK
<1>1. FrInv => FrTypeOK
  BY DEF FrInv, FrTypes, FrTypeOK, Frame
<1> QED
  BY FrInvInvariant, <1>1, PTL

\* The messages handed on are those sent, in order and without a gap, by the
\* client always and by the server until a deadline has passed inside one
\* (readMessage of smmc_server.go and of smsc_client.go).
THEOREM MessagesComeAsSent == FrSpec => []FramesAsSent
<1>1. FrInv => FramesAsSent
  BY DEF FrInv
<1> QED
  BY FrInvInvariant, <1>1, PTL

-----------------------------------------------------------------------------
(***************************************************************************)
(* ConnectionPool, for any limit and any set of connections: the types,    *)
(* that no connection has two holders, and that activeCount is exactly     *)
(* what it should be, so that the limit holds but for what a Close left    *)
(* out.                                                                    *)
(***************************************************************************)
(***************************************************************************)
(* The inductive invariant.  The limit follows from the accounting and from *)
(* the count staying at or below maxSize: createConn runs only below it or  *)
(* just after an expired connection was taken off.                          *)
(***************************************************************************)
PoolInv ==
    /\ PoolTypeOK
    /\ PoolExclusive
    /\ PoolAccounting
    /\ activeCount <= PoolMaxSize

\* Lending one connection more, or one less, changes the number lent by one.
LEMMA LentCounts ==
    ASSUME PoolAssumption, PoolTypeOK
    PROVE  /\ IsFiniteSet(lent)
           /\ Cardinality(lent) \in Nat
           /\ \A c \in PoolConns \ lent :
                Cardinality(lent \cup {c}) = Cardinality(lent) + 1
           /\ \A c \in lent : Cardinality(lent \ {c}) = Cardinality(lent) - 1
<1>1. IsFiniteSet(lent)
  BY FS_Subset DEF PoolAssumption, PoolTypeOK
<1>2. Cardinality(lent) \in Nat
  BY <1>1, FS_CardinalityType
<1>3. \A c \in PoolConns \ lent : Cardinality(lent \cup {c}) = Cardinality(lent) + 1
  BY <1>1, FS_AddElement
<1>4. \A c \in lent : Cardinality(lent \ {c}) = Cardinality(lent) - 1
  BY <1>1, FS_RemoveElement
<1>5. QED
  BY <1>1, <1>2, <1>3, <1>4

LEMMA PoolInitInv == PoolInit => PoolInv
<1> SUFFICES ASSUME PoolInit PROVE PoolInv
  OBVIOUS
<1>1. Cardinality(lent) = 0
  BY FS_EmptySet DEF PoolInit
<1>2. Idle = {}
  BY DEF PoolInit, Idle
<1>3. QED
  BY <1>1, <1>2, PoolAssumption
     DEF PoolInit, PoolInv, PoolTypeOK, PoolExclusive, PoolAccounting, PoolAssumption

\* The idle list without its first d and last e elements.
LEMMA SubListFacts ==
    ASSUME NEW S, NEW s \in Seq(S), NEW d \in Nat, NEW e \in Nat, d + e <= Len(s)
    PROVE  LET t == SubSeq(s, d + 1, Len(s) - e) IN
           /\ t \in Seq(S)
           /\ Len(t) = Len(s) - d - e
           /\ \A i \in 1..(Len(s) - d - e) : t[i] = s[i + d] /\ i + d \in 1..Len(s)
<1> DEFINE t == SubSeq(s, d + 1, Len(s) - e)
<1>1. Len(t) = Len(s) - d - e
  OBVIOUS
<1>2. \A i \in 1..(Len(s) - d - e) : t[i] = s[i + d] /\ i + d \in 1..Len(s)
  OBVIOUS
<1>3. t \in Seq(S)
  OBVIOUS
<1>4. QED
  BY <1>1, <1>2, <1>3

\* Holders stay exclusive when the idle list shrinks at its ends and those
\* lent are not among what is left of it.
LEMMA SubListExclusive ==
    ASSUME PoolTypeOK, PoolExclusive,
           NEW d \in Nat, NEW e \in Nat, d + e <= Len(idleConns),
           idleConns' = SubSeq(idleConns, d + 1, Len(idleConns) - e),
           \A i \in 1..(Len(idleConns) - d - e) : idleConns'[i] \notin lent'
    PROVE  PoolExclusive'
<1>1. /\ DOMAIN idleConns = 1..Len(idleConns)
      /\ DOMAIN idleConns' = 1..(Len(idleConns) - d - e)
      /\ \A i \in DOMAIN idleConns' : idleConns'[i] = idleConns[i + d] /\ i + d \in DOMAIN idleConns
      /\ d \in Int /\ DOMAIN idleConns' \subseteq Int
  BY SubListFacts DEF PoolTypeOK
<1>2. \A i, j \in DOMAIN idleConns' : idleConns'[i] = idleConns'[j] => i = j
  <2>1. \A i, j \in DOMAIN idleConns' : idleConns'[i] = idleConns'[j] => i + d = j + d
    BY <1>1 DEF PoolExclusive
  <2>2. QED
    BY <1>1, <2>1
<1>3. \A i \in DOMAIN idleConns' : idleConns'[i] \notin lent'
  BY <1>1
<1>4. {idleConns'[i] : i \in DOMAIN idleConns'} \cap lent' = {}
  BY <1>3
<1>5. QED
  BY <1>2, <1>4 DEF PoolExclusive, Idle

LEMMA PoolStepInv == PoolInv /\ [PoolNext]_poolVars => PoolInv'
<1> SUFFICES ASSUME PoolInv, [PoolNext]_poolVars PROVE PoolInv'
  OBVIOUS
<1> USE PoolAssumption
<1>0. /\ PoolTypeOK /\ PoolExclusive
      /\ activeCount = Cardinality(lent) + Len(idleConns) + lost - owed
      /\ activeCount <= PoolMaxSize
      /\ PoolMaxSize \in Nat /\ PoolMaxLost \in Nat
      /\ Len(idleConns) \in Nat /\ DOMAIN idleConns = 1..Len(idleConns)
      /\ \A i \in DOMAIN idleConns : idleConns[i] \in PoolConns \ lent
      /\ expired \in 0..Len(idleConns)
      /\ idleConns \in Seq(PoolConns)
      /\ activeCount \in Int /\ lost \in 0..PoolMaxLost /\ owed \in Nat
      /\ lent \in SUBSET PoolConns
  BY DEF PoolInv, PoolTypeOK, PoolExclusive, PoolAccounting, PoolAssumption, Idle
<1>a. /\ Cardinality(lent) \in Nat
      /\ \A c \in PoolConns \ lent : Cardinality(lent \cup {c}) = Cardinality(lent) + 1
      /\ \A c \in lent : Cardinality(lent \ {c}) = Cardinality(lent) - 1
  BY <1>0, LentCounts
\* What is left to show of each action: its types and its arithmetic.
<1>b. ASSUME PoolExclusive', idleConns' \in Seq(PoolConns), lent' \in SUBSET PoolConns,
             expired' \in 0..Len(idleConns'),
             activeCount' \in Int, lost' \in 0..PoolMaxLost, owed' \in Nat,
             activeCount' = Cardinality(lent') + Len(idleConns') + lost' - owed',
             activeCount' <= PoolMaxSize
      PROVE  PoolInv'
  BY <1>b DEF PoolInv, PoolTypeOK, PoolAccounting
<1>1. CASE GetIdle
  <2> DEFINE n == Len(idleConns)
  <2>1. /\ n \in Nat /\ 0 + 1 <= n /\ expired <= n - 1 /\ n \in DOMAIN idleConns
        /\ idleConns' = SubSeq(idleConns, 0 + 1, n - 1)
        /\ lent' = lent \cup {idleConns[n]} /\ idleConns[n] \in PoolConns \ lent
        /\ expired' = expired /\ activeCount' = activeCount /\ lost' = lost /\ owed' = owed
    BY <1>0, <1>1 DEF GetIdle
  <2>2. /\ idleConns' \in Seq(PoolConns) /\ Len(idleConns') = n - 1
        /\ \A i \in 1..(n - 1) : idleConns'[i] = idleConns[i] /\ i \in DOMAIN idleConns
    <3>1. 0 \in Nat /\ 1 \in Nat
      OBVIOUS
    <3>2. /\ idleConns' \in Seq(PoolConns) /\ Len(idleConns') = n - 0 - 1
          /\ \A i \in 1..(n - 0 - 1) : idleConns'[i] = idleConns[i + 0] /\ i + 0 \in 1..n
      BY <1>0, <2>1, <3>1, SubListFacts
    <3>3. QED
      BY <1>0, <3>2
  <2>3. \A i \in 1..(n - 0 - 1) : idleConns'[i] \notin lent'
    <3>1. \A i \in 1..(n - 1) : i \in DOMAIN idleConns /\ i # n
      BY <2>1, <2>2
    <3>2. \A i \in 1..(n - 1) : idleConns[i] # idleConns[n] /\ idleConns[i] \notin lent
      BY <1>0, <2>1, <3>1, Zenon DEF PoolExclusive
    <3>3. \A i \in 1..(n - 1) : idleConns'[i] \notin lent'
      BY <2>1, <2>2, <3>2, Zenon
    <3>4. n - 0 - 1 = n - 1
      BY <2>1
    <3>5. QED
      BY <3>3, <3>4
  <2>4. PoolExclusive'
    <3>1. 0 \in Nat /\ 1 \in Nat
      OBVIOUS
    <3>2. QED
      BY <1>0, <2>1, <2>3, <3>1, SubListExclusive
  <2>5. Cardinality(lent') = Cardinality(lent) + 1
    BY <1>a, <2>1
  <2>6. QED
    BY <1>0, <1>a, <1>b, <2>1, <2>2, <2>4, <2>5
<1>2. CASE GetExpired
  <2> DEFINE n == Len(idleConns)
  <2>1. /\ n \in Nat /\ 0 + 1 <= n /\ expired = n
        /\ idleConns' = SubSeq(idleConns, 0 + 1, n - 1)
        /\ expired' = expired - 1 /\ lost' = lost /\ owed' = owed
        /\ CreateConn(activeCount - 1, idleConns') \/ DialFails(activeCount - 1)
    BY <1>0, <1>2 DEF GetExpired
  <2>2. /\ idleConns' \in Seq(PoolConns) /\ Len(idleConns') = n - 1
        /\ DOMAIN idleConns' = 1..(n - 1)
        /\ \A i \in 1..(n - 1) : idleConns'[i] = idleConns[i] /\ i \in DOMAIN idleConns
    <3>1. 0 \in Nat /\ 1 \in Nat
      OBVIOUS
    <3>2. /\ idleConns' \in Seq(PoolConns) /\ Len(idleConns') = n - 0 - 1
          /\ \A i \in 1..(n - 0 - 1) : idleConns'[i] = idleConns[i + 0] /\ i + 0 \in 1..n
      BY <1>0, <2>1, <3>1, SubListFacts
    <3>3. QED
      BY <1>0, <3>2
  <2>3. ASSUME \A i \in 1..(n - 1) : idleConns'[i] \notin lent'
        PROVE  PoolExclusive'
    <3>1. 0 \in Nat /\ 1 \in Nat /\ n - 0 - 1 = n - 1
      BY <2>1
    <3>2. QED
      BY <1>0, <2>1, <2>3, <3>1, SubListExclusive
  <2>4. CASE CreateConn(activeCount - 1, idleConns')
    <3>1. PICK c \in PoolConns \ (lent \cup {idleConns'[i] : i \in DOMAIN idleConns'}) :
            lent' = lent \cup {c} /\ activeCount' = activeCount - 1 + 1
      BY <2>4 DEF CreateConn
    <3>2. Cardinality(lent') = Cardinality(lent) + 1
      BY <1>a, <3>1
    <3>3. PoolExclusive'
      BY <1>0, <2>2, <2>3, <3>1
    <3>4. expired' \in 0..Len(idleConns')
      BY <2>1, <2>2
    <3>5. activeCount' = activeCount /\ Len(idleConns') = Len(idleConns) - 1
      BY <1>0, <2>2, <3>1
    <3>6. activeCount' = Cardinality(lent') + Len(idleConns') + lost' - owed'
      BY <1>0, <1>a, <2>1, <3>2, <3>5
    <3>7. lent' \in SUBSET PoolConns /\ activeCount' \in Int /\ activeCount' <= PoolMaxSize
          /\ lost' \in 0..PoolMaxLost /\ owed' \in Nat
      BY <1>0, <2>1, <3>1, <3>5
    <3>8. QED
      BY <1>b, <2>2, <3>3, <3>4, <3>6, <3>7
  <2>5. CASE DialFails(activeCount - 1)
    <3>1. PoolExclusive'
      BY <1>0, <2>2, <2>3, <2>5 DEF DialFails
    <3>2. lent' = lent /\ activeCount' = activeCount - 1
      BY <2>5 DEF DialFails
    <3>3. expired' \in 0..Len(idleConns')
      BY <2>1, <2>2
    <3>4. activeCount' = Cardinality(lent') + Len(idleConns') + lost' - owed'
      BY <1>0, <1>a, <2>1, <2>2, <3>2
    <3>5. lent' \in SUBSET PoolConns /\ activeCount' \in Int /\ activeCount' <= PoolMaxSize
          /\ lost' \in 0..PoolMaxLost /\ owed' \in Nat
      BY <1>0, <2>1, <3>2
    <3>6. QED
      BY <1>b, <2>2, <3>1, <3>3, <3>4, <3>5
  <2>6. QED
    BY <2>1, <2>4, <2>5
<1>3. CASE GetNew
  <2>1. PICK c \in PoolConns \ lent : lent' = lent \cup {c} /\ activeCount' = activeCount + 1
    BY <1>3 DEF GetNew, CreateConn
  <2>2. Cardinality(lent') = Cardinality(lent) + 1
    BY <1>a, <2>1
  <2>3. PoolExclusive'
    BY <1>3 DEF GetNew, PoolExclusive, Idle
  <2>4. QED
    BY <1>0, <1>a, <1>b, <1>3, <2>1, <2>2, <2>3 DEF GetNew
<1>4. CASE PoolClose
  <2>1. PoolExclusive'
    BY <1>4 DEF PoolClose, PoolExclusive, Idle
  <2>2. QED
    BY <1>0, <1>a, <1>b, <1>4, <2>1 DEF PoolClose
<1>5. CASE Cleanup
  <2> DEFINE n == Len(idleConns)
  <2>1. /\ n \in Nat /\ expired \in Nat /\ expired + 0 <= n
        /\ idleConns' = SubSeq(idleConns, expired + 1, n - 0)
        /\ expired' = 0 /\ activeCount' = activeCount - expired
        /\ lent' = lent /\ lost' = lost /\ owed' = owed
    BY <1>0, <1>5 DEF Cleanup
  <2>2. /\ idleConns' \in Seq(PoolConns) /\ Len(idleConns') = n - expired
        /\ \A i \in 1..(n - expired) :
             idleConns'[i] = idleConns[i + expired] /\ i + expired \in DOMAIN idleConns
    <3>1. 0 \in Nat
      OBVIOUS
    <3>2. LET t == SubSeq(idleConns, expired + 1, Len(idleConns) - 0)
          IN  /\ t \in Seq(PoolConns)
              /\ Len(t) = Len(idleConns) - expired - 0
              /\ \A i \in 1..(Len(idleConns) - expired - 0) :
                   t[i] = idleConns[i + expired] /\ i + expired \in 1..Len(idleConns)
      BY <1>0, <2>1, <3>1, SubListFacts, Zenon
    <3>3. n - expired - 0 = n - expired /\ n - 0 = n /\ DOMAIN idleConns = 1..n
      BY <1>0, <2>1
    <3>4. idleConns' = SubSeq(idleConns, expired + 1, Len(idleConns) - 0)
      BY <2>1
    <3>5. idleConns' \in Seq(PoolConns) /\ Len(idleConns') = n - expired
      BY <3>2, <3>3, <3>4
    <3>6. \A i \in 1..(n - expired) : idleConns'[i] = idleConns[i + expired] /\ i + expired \in 1..n
      BY <3>2, <3>3, <3>4
    <3>7. QED
      BY <3>3, <3>5, <3>6
  <2>3. PoolExclusive'
    <3>1. 0 \in Nat /\ n - expired - 0 = n - expired
      BY <2>1
    <3>2. QED
      BY <1>0, <2>1, <2>2, <3>1, SubListExclusive
  <2>4. /\ Len(idleConns) = n /\ expired \in Nat /\ n \in Nat
        /\ activeCount = Cardinality(lent) + n + lost - owed
        /\ Cardinality(lent) \in Nat /\ lost \in Nat /\ owed \in Nat /\ activeCount \in Int
        /\ activeCount <= PoolMaxSize /\ PoolMaxSize \in Nat
    BY <1>0, <1>a, <2>1
  <2> HIDE DEF n
  <2>5. activeCount' = Cardinality(lent') + Len(idleConns') + lost' - owed'
    BY <2>1, <2>2, <2>4
  <2>7. activeCount' \in Int /\ activeCount' <= PoolMaxSize /\ expired' \in 0..Len(idleConns')
    BY <2>1, <2>2, <2>4
  <2>6. QED
    BY <1>0, <1>b, <2>1, <2>2, <2>3, <2>5, <2>7
<1>6. CASE Age
  <2>1. PoolExclusive'
    BY <1>0, <1>6 DEF Age, PoolExclusive, Idle
  <2>2. QED
    BY <1>0, <1>a, <1>b, <1>6, <2>1 DEF Age
<1>7. ASSUME NEW c \in PoolConns, Put(c) PROVE PoolInv'
  <2>1. /\ c \in lent /\ lent' = lent \ {c} /\ Cardinality(lent') = Cardinality(lent) - 1
        /\ expired' = expired /\ activeCount' = activeCount /\ lost' = lost /\ owed' = owed
    BY <1>a, <1>7 DEF Put
  <2>2. /\ idleConns' \in Seq(PoolConns) /\ Len(idleConns') = Len(idleConns) + 1
        /\ DOMAIN idleConns' = 1..(Len(idleConns) + 1)
        /\ \A i \in DOMAIN idleConns' :
             idleConns'[i] = IF i = Len(idleConns) + 1 THEN c ELSE idleConns[i]
    BY <1>0, <1>7 DEF Put
  <2>3. PoolExclusive'
    <3>1. \A i \in DOMAIN idleConns' : i # Len(idleConns) + 1 => i \in DOMAIN idleConns
      BY <1>0, <2>2
    <3>2. QED
      BY <1>0, <2>1, <2>2, <3>1 DEF PoolExclusive, Idle
  <2>4. QED
    BY <1>0, <1>a, <1>b, <2>1, <2>2, <2>3
<1>8. ASSUME NEW c \in PoolConns, PutBroken(c) PROVE PoolInv'
  <2>1. /\ Cardinality(lent') = Cardinality(lent) - 1 /\ lent' = lent \ {c}
        /\ activeCount' = activeCount - 1
        /\ idleConns' = idleConns /\ expired' = expired /\ lost' = lost /\ owed' = owed
    BY <1>a, <1>8 DEF PutBroken
  <2>2. PoolExclusive'
    BY <1>0, <2>1 DEF PoolExclusive, Idle
  <2>3. activeCount' = Cardinality(lent') + Len(idleConns') + lost' - owed'
    BY <1>0, <1>a, <2>1
  <2>4. QED
    BY <1>0, <1>b, <2>1, <2>2, <2>3
<1>9. ASSUME NEW c \in PoolConns, Abandon(c) PROVE PoolInv'
  <2>1. /\ Cardinality(lent') = Cardinality(lent) - 1 /\ lent' = lent \ {c}
        /\ lost < PoolMaxLost /\ lost' = lost + 1
        /\ UNCHANGED <<idleConns, expired, activeCount, owed>>
    BY <1>a, <1>9 DEF Abandon
  <2>2. PoolExclusive'
    BY <1>0, <2>1 DEF PoolExclusive, Idle
  <2>3. QED
    BY <1>0, <1>a, <1>b, <2>1, <2>2
<1>10. CASE UNCHANGED poolVars
  BY <1>10 DEF poolVars, PoolInv, PoolTypeOK, PoolExclusive, PoolAccounting, Idle
<1>11. QED
  BY <1>1, <1>2, <1>3, <1>4, <1>5, <1>6, <1>7, <1>8, <1>9, <1>10 DEF PoolNext

\* The variables of the pool always have their types.
THEOREM PoolTypeCorrect == PoolSpec => []PoolTypeOK
<1>1. PoolInv => PoolTypeOK
  BY DEF PoolInv
<1>2. QED
  BY PoolInitInv, PoolStepInv, <1>1, PTL DEF PoolSpec

\* No connection is ever lent to two borrowers, or idle while it is lent.
THEOREM PoolExclusiveAlways == PoolSpec => []PoolExclusive
<1>1. PoolInv => PoolExclusive
  BY DEF PoolInv
<1>2. QED
  BY PoolInitInv, PoolStepInv, <1>1, PTL DEF PoolSpec

\* activeCount is the connections lent, idle and lost, less what Close left out.
THEOREM PoolAccountingAlways == PoolSpec => []PoolAccounting
<1>1. PoolInv => PoolAccounting
  BY DEF PoolInv
<1>2. QED
  BY PoolInitInv, PoolStepInv, <1>1, PTL DEF PoolSpec

\* The limit is exceeded by what the last Close left out, and never by more.
THEOREM PoolLimitAlways == PoolSpec => []PoolLimit
<1>1. PoolInv => PoolLimit
  <2> SUFFICES ASSUME PoolInv PROVE PoolLimit
    OBVIOUS
  <2>1. Cardinality(lent) \in Nat
    BY LentCounts, PoolAssumption DEF PoolInv
  <2>2. QED
    BY <2>1, PoolAssumption DEF PoolInv, PoolTypeOK, PoolAccounting, PoolLimit, PoolAssumption
<1>2. QED
  BY PoolInitInv, PoolStepInv, <1>1, PTL DEF PoolSpec
=============================================================================
