-------------------------- MODULE EventInboxTypes --------------------------
(***************************************************************************)
(* The types of EventInbox and what the applier and a pass have in hand:   *)
(* TypeOK and InboxInv are inductive together, for every number of         *)
(* operations, ticks and faults and whatever events of InboxEvents are     *)
(* admitted.  What a removal takes off the index follows.                  *)
(***************************************************************************)
EXTENDS EventInbox, WellFoundedInduction, TLAPS

\* Zenon is the prover of a leaf that names none.
USE ZenonT(120)

-----------------------------------------------------------------------------
(* Sequences and numbers. *)

\* A sequence is a function over 1..n.
LEMMA LenIs ==
    ASSUME NEW S, NEW s \in Seq(S)
    PROVE  Len(s) \in Nat /\ s \in [1..Len(s) -> S] /\ DOMAIN s = 1..Len(s)
BY SMTT(60)

\* A function over 1..n is a sequence.
LEMMA SeqIs ==
    ASSUME NEW S
    PROVE  /\ \A s \in Seq(S) : /\ Len(s) \in Nat /\ DOMAIN s = 1..Len(s)
                                /\ \A i \in DOMAIN s : s[i] \in S
           /\ \A n \in Nat : \A s \in [1..n -> S] : s \in Seq(S) /\ Len(s) = n
<1>1. \A s \in Seq(S) : /\ Len(s) \in Nat /\ DOMAIN s = 1..Len(s)
                        /\ \A i \in DOMAIN s : s[i] \in S
  BY SMTT(60)
<1>2. ASSUME NEW n \in Nat, NEW s \in [1..n -> S]
      PROVE  s \in Seq(S) /\ Len(s) = n
  BY SMTT(60)
<1> QED BY <1>1, <1>2

\* The empty sequence is the one without elements.
LEMMA EmptyIs ==
    ASSUME NEW S
    PROVE  /\ <<>> \in Seq(S) /\ Len(<<>>) = 0
           /\ \A s \in Seq(S) : s # <<>> => Len(s) \in Nat \ {0}
BY SMTT(60)

\* A sequence over a set is one over a larger set.
LEMMA WiderSeq ==
    ASSUME NEW S, NEW T, NEW s \in Seq(S), S \subseteq T
    PROVE  s \in Seq(T)
BY SMTT(60)

\* A sequence with one element replaced.
LEMMA ExceptIs ==
    ASSUME NEW S, NEW s \in Seq(S), NEW i \in 1..Len(s), NEW e \in S
    PROVE  /\ [s EXCEPT ![i] = e] \in Seq(S) /\ Len([s EXCEPT ![i] = e]) = Len(s)
           /\ \A j \in 1..Len(s) : [s EXCEPT ![i] = e][j] = IF j = i THEN e ELSE s[j]
BY SMTT(60)

\* A sequence with one element more.
LEMMA AppendIs ==
    ASSUME NEW S, NEW s \in Seq(S), NEW e \in S
    PROVE  /\ Append(s, e) \in Seq(S) /\ Append(s, e) # <<>> /\ Len(Append(s, e)) = Len(s) + 1
           /\ \A i \in 1..Len(s) : Append(s, e)[i] = s[i]
           /\ Append(s, e)[Len(s) + 1] = e
BY SMTT(60)

\* A part of a sequence.
LEMMA SubSeqIs ==
    ASSUME NEW S, NEW s, NEW m \in Int, NEW n \in Int, \A i \in m..n : s[i] \in S
    PROVE  /\ SubSeq(s, m, n) \in Seq(S)
           /\ Len(SubSeq(s, m, n)) = IF m <= n THEN n - m + 1 ELSE 0
           /\ \A i \in 1..n - m + 1 : SubSeq(s, m, n)[i] = s[m + i - 1]
BY SMTT(60)

\* Two sequences one after the other.
LEMMA ConcatIs ==
    ASSUME NEW S, NEW s \in Seq(S), NEW t \in Seq(S)
    PROVE  /\ s \o t \in Seq(S) /\ Len(s \o t) = Len(s) + Len(t)
           /\ \A i \in 1..Len(s) + Len(t) :
                 (s \o t)[i] = IF i <= Len(s) THEN s[i] ELSE t[i - Len(s)]
BY SMTT(60)

\* Without takes one element out.
LEMMA WithoutIs ==
    ASSUME NEW S, NEW s \in Seq(S), NEW k \in DOMAIN s
    PROVE  /\ Without(s, k) \in Seq(S)
           /\ Len(Without(s, k)) = Len(s) - 1
           /\ DOMAIN Without(s, k) = 1..Len(s) - 1
           /\ \A j \in 1..Len(s) - 1 : Without(s, k)[j] = s[IF j < k THEN j ELSE j + 1]
<1>1. Len(s) \in Nat /\ DOMAIN s = 1..Len(s) /\ k \in 1..Len(s) /\ \A i \in 1..Len(s) : s[i] \in S
  BY SeqIs
<1> DEFINE a == SubSeq(s, 1, k - 1)
           b == SubSeq(s, k + 1, Len(s))
<1>2. /\ a \in Seq(S) /\ Len(a) = k - 1
      /\ \A i \in 1..k - 1 : a[i] = s[i]
  <2> DEFINE n == k - 1
  <2>1. n \in Int /\ n = k - 1 /\ \A i \in 1..n : s[i] \in S
    BY <1>1, SMTT(60)
  <2>2. a = SubSeq(s, 1, n)
    OBVIOUS
  <2> HIDE DEF n, a
  <2>3. /\ a \in Seq(S) /\ Len(a) = IF 1 <= n THEN n - 1 + 1 ELSE 0
        /\ \A i \in 1..n - 1 + 1 : a[i] = s[1 + i - 1]
    BY <2>1, <2>2, SubSeqIs, SMTT(60)
  <2> QED BY <1>1, <2>1, <2>3, SMTT(60)
<1>3. /\ b \in Seq(S) /\ Len(b) = Len(s) - k
      /\ \A i \in 1..Len(s) - k : b[i] = s[k + i]
  <2> DEFINE m == k + 1
             n == Len(s)
  <2>1. m \in Int /\ n \in Nat /\ m = k + 1 /\ k <= n /\ \A i \in m..n : s[i] \in S
    BY <1>1, SMTT(60)
  <2>2. b = SubSeq(s, m, n) /\ n = Len(s)
    OBVIOUS
  <2> HIDE DEF m, n, b
  <2>3. /\ b \in Seq(S) /\ Len(b) = IF m <= n THEN n - m + 1 ELSE 0
        /\ \A i \in 1..n - m + 1 : b[i] = s[m + i - 1]
    BY <2>1, <2>2, SubSeqIs, SMTT(60)
  <2>4. \A i \in 1..n - k : b[i] = s[k + i]
    <3> TAKE i \in 1..n - k
    <3>1. i \in 1..n - m + 1 /\ m + i - 1 = k + i
      BY <1>1, <2>1, SMTT(60)
    <3> QED BY <2>3, <3>1
  <2>5. Len(b) = n - k
    BY <1>1, <2>1, <2>3, SMTT(60)
  <2> QED BY <2>2, <2>3, <2>4, <2>5
<1> HIDE DEF a, b
<1>4. /\ a \o b \in Seq(S) /\ Len(a \o b) = Len(a) + Len(b)
      /\ \A i \in 1..Len(a) + Len(b) : (a \o b)[i] = IF i <= Len(a) THEN a[i] ELSE b[i - Len(a)]
  BY <1>2, <1>3, ConcatIs
<1>5. Without(s, k) = a \o b
  BY DEF Without, a, b
<1>6. Len(a \o b) = Len(s) - 1 /\ DOMAIN (a \o b) = 1..Len(s) - 1
  <2>1. Len(a \o b) = Len(s) - 1
    BY <1>1, <1>2, <1>3, <1>4, SMTT(60)
  <2> QED BY <1>4, <2>1, LenIs
<1>7. ASSUME NEW j \in 1..Len(s) - 1
      PROVE  (a \o b)[j] = s[IF j < k THEN j ELSE j + 1]
  <2>1. CASE j < k
    BY <1>1, <1>2, <1>3, <1>4, <2>1, SMTT(60)
  <2>2. CASE ~(j < k)
    <3>1. (a \o b)[j] = b[j - (k - 1)] /\ j - (k - 1) \in 1..Len(s) - k
      BY <1>1, <1>2, <1>3, <1>4, <2>2, SMTT(60)
    <3>2. b[j - (k - 1)] = s[k + (j - (k - 1))]
      BY <1>3, <3>1
    <3>3. k + (j - (k - 1)) = j + 1
      BY <1>1, <2>2, SMTT(60)
    <3> QED BY <2>2, <3>1, <3>2, <3>3
  <2> QED BY <2>1, <2>2
<1> QED BY <1>4, <1>5, <1>6, <1>7

\* Every element that is left was there, once.
LEMMA WithoutKeeps ==
    ASSUME NEW S, NEW s \in Seq(S), NEW k \in DOMAIN s, NEW t, t = Without(s, k)
    PROVE  /\ t \in Seq(S)
           /\ \E m \in [DOMAIN t -> DOMAIN s] :
                 /\ \A j \in DOMAIN t : t[j] = s[m[j]] /\ m[j] # k
                 /\ \A i, j \in DOMAIN t : m[i] = m[j] => i = j
                 /\ \A l \in DOMAIN s \ {k} : \E j \in DOMAIN t : m[j] = l
<1>1. Len(s) \in Nat /\ DOMAIN s = 1..Len(s) /\ k \in 1..Len(s)
  BY SeqIs
<1> DEFINE D == DOMAIN t
           m == [j \in D |-> IF j < k THEN j ELSE j + 1]
<1>2. /\ t \in Seq(S) /\ D = 1..Len(s) - 1
      /\ \A j \in D : t[j] = s[IF j < k THEN j ELSE j + 1]
  BY WithoutIs
<1> HIDE DEF D
<1>3. \A j \in D : m[j] = (IF j < k THEN j ELSE j + 1) /\ m[j] \in DOMAIN s /\ m[j] # k
  BY <1>1, <1>2, SMTT(60)
<1>4. m \in [D -> DOMAIN s]
  BY <1>3
<1>5. \A i, j \in D : m[i] = m[j] => i = j
  BY <1>1, <1>2, SMTT(60)
<1>6. ASSUME NEW l \in DOMAIN s \ {k} PROVE \E j \in D : m[j] = l
  <2>1. CASE l < k
    <3>1. l \in D /\ m[l] = l
      BY <1>1, <1>2, <2>1, SMTT(60)
    <3> QED BY <3>1
  <2>2. CASE ~(l < k)
    <3>1. l - 1 \in D /\ m[l - 1] = l
      BY <1>1, <1>2, <2>2, SMTT(60)
    <3> QED BY <3>1
  <2> QED BY <2>1, <2>2
<1>7. \A j \in D : t[j] = s[m[j]]
  BY <1>2, <1>3
<1> HIDE DEF m
<1>8. SUFFICES \E f \in [D -> DOMAIN s] :
                 /\ \A j \in D : t[j] = s[f[j]] /\ f[j] # k
                 /\ \A i, j \in D : f[i] = f[j] => i = j
                 /\ \A l \in DOMAIN s \ {k} : \E j \in D : f[j] = l
  BY <1>2 DEF D
<1> WITNESS m \in [D -> DOMAIN s]
<1> QED BY <1>3, <1>5, <1>6, <1>7

\* A set of numbers has a least one, and one below a bound a greatest.
LEMMA Smallest ==
    ASSUME NEW S \in SUBSET Nat, S # {}
    PROVE  \E m \in S : \A x \in S : m <= x
<1> DEFINE R == OpToRel(<, Nat)
<1>1. IsWellFoundedOn(R, Nat)
  BY NatLessThanWellFounded
<1>2. PICK m \in S : \A x \in S : ~(<<x, m>> \in R)
  <2> HIDE DEF R
  <2> QED BY <1>1, WFMin
<1>3. \A x \in S : ~(x < m)
  BY <1>2 DEF OpToRel
<1> QED BY <1>3, SMTT(60)

\* A nonempty set of bounded numbers has a greatest member.
LEMMA Greatest ==
    ASSUME NEW n \in Nat, NEW S \in SUBSET (0..n), S # {}
    PROVE  \E m \in S : \A x \in S : x <= m
<1> DEFINE T == {n - x : x \in S}
<1>1. T \in SUBSET Nat /\ T # {}
  <2>1. \A x \in S : n - x \in Nat
    BY SMTT(60)
  <2> QED BY <2>1
<1>2. PICK t \in T : \A x \in T : t <= x
  <2> HIDE DEF T
  <2> QED BY <1>1, Smallest
<1>3. PICK m \in S : t = n - m
  OBVIOUS
<1>4. \A x \in S : n - m <= n - x
  BY <1>2, <1>3
<1> QED BY <1>4, SMTT(60)
-----------------------------------------------------------------------------
(* The parts of TypeOK, by the variables they are about. *)

OpsTyped ==
    /\ sequenced \in BOOLEAN
    /\ ops \in Seq(OpType) /\ Len(ops) <= MaxOps /\ clock \in 1..MaxClock
    /\ queue \subseteq DOMAIN ops /\ dead \in BOOLEAN /\ broken \in 0..MaxClock
InboxTyped ==
    /\ inbox \in Seq(EventType)
    /\ \A i, j \in Ids : i # j => inbox[i].op # inbox[j].op
IntentsTyped == intents \in Seq(IntentType)
IndexTyped == index \in [etag : 0..Len(ops), seq : 0..Len(ops), desc : 0..Len(ops)]
WorkTyped ==
    /\ lease \in {"free", "applier", "scoped", "regular"}
    /\ lease = "applier" <=> apply.pc \in {"confirm", "settle", "mark", "release"}
    /\ lease = "scoped" <=> pass.pc = "scoped"
    /\ lease = "regular" <=> pass.pc \in {"listing", "listed", "noted", "sent"}
    /\ apply \in ApplyType /\ pass \in PassType /\ resolving \in ResolvingType
RestTyped ==
    /\ baseline \in [held : BOOLEAN, at : 0..MaxClock]
    /\ sub \in 0..MaxClock /\ owed \in BOOLEAN /\ faults \in 0..MaxFaults

\* TypeOK is the conjunction of its parts.
LEMMA TypeParts ==
    TypeOK <=> /\ OpsTyped /\ InboxTyped /\ IntentsTyped /\ IndexTyped
               /\ WorkTyped /\ RestTyped
BY DEF TypeOK, OpsTyped, InboxTyped, IntentsTyped, IndexTyped, WorkTyped, RestTyped

\* What the types say of the sequences.
LEMMA OpsFacts ==
    ASSUME OpsTyped
    PROVE  /\ Len(ops) \in Nat /\ DOMAIN ops = 1..Len(ops)
           /\ \A n \in 1..Len(ops) : ops[n] \in OpType
           /\ ops = <<>> <=> Len(ops) = 0
<1>1. ops \in Seq(OpType)
  BY DEF OpsTyped
<1> QED BY <1>1, SeqIs, EmptyIs

\* The rows.
LEMMA InboxFacts ==
    ASSUME InboxTyped
    PROVE  /\ Len(inbox) \in Nat /\ Ids = 1..Len(inbox)
           /\ inbox \in [Ids -> EventType]
           /\ \A i \in Ids : inbox[i] \in EventType
<1>1. inbox \in Seq(EventType)
  BY DEF InboxTyped
<1> QED BY <1>1, LenIs DEF Ids

\* The intents.
LEMMA IntentsFacts ==
    ASSUME IntentsTyped
    PROVE  /\ Len(intents) \in Nat /\ DOMAIN intents = 1..Len(intents)
           /\ \A k \in 1..Len(intents) : intents[k] \in IntentType
           /\ intents = <<>> <=> Len(intents) = 0
<1>1. intents \in Seq(IntentType)
  BY DEF IntentsTyped
<1> QED BY <1>1, SeqIs, EmptyIs

\* The object is the last operation or none.
LEMMA ObjectIs ==
    ASSUME OpsTyped
    PROVE  /\ Object \in 0..Len(ops)
           /\ Object # None => /\ Object = Len(ops) /\ Len(ops) \in 1..Len(ops)
                               /\ ops[Len(ops)].kind = "Created"
           /\ Object = None => Len(ops) = 0 \/ ops[Len(ops)].kind = "Removed"
<1>1. /\ Len(ops) \in Nat /\ ops = <<>> <=> Len(ops) = 0
      /\ \A n \in 1..Len(ops) : ops[n] \in OpType
  BY OpsFacts
<1>2. Len(ops) # 0 => Len(ops) \in 1..Len(ops) /\ ops[Len(ops)].kind \in Kinds
  BY <1>1, SMTT(60) DEF OpType
<1> QED BY <1>1, <1>2, SMTT(60) DEF Object, None, Kinds

\* The constants.
LEMMA Bounds ==
    /\ MaxOps \in Nat /\ MaxFaults \in Nat /\ Slack \in Nat /\ Skew \in Nat
    /\ MaxClock \in Nat \ {0} /\ MaxPassAttempts \in Nat \ {0}
    /\ LastTick \in Nat /\ LastTick <= MaxClock
    /\ Sequencing \subseteq BOOLEAN
BY InboxAssumption, SMTT(60) DEF LastTick

-----------------------------------------------------------------------------
(* What the helpers return. *)

\* The three updates of rows keep the operation of a row.
LEMMA SkippedIs ==
    ASSUME InboxTyped, NEW ids, NEW o \in {"unknown", "external", "self"}
    PROVE  /\ Skipped(inbox, ids, o) \in [Ids -> EventType]
           /\ \A i \in Ids :
                /\ Skipped(inbox, ids, o)[i].op = inbox[i].op
                /\ Skipped(inbox, ids, o)[i].due = inbox[i].due
                /\ Skipped(inbox, ids, o)[i].attempts = inbox[i].attempts
                /\ Skipped(inbox, ids, o)[i].state = IF i \in ids THEN "skipped" ELSE inbox[i].state
                /\ Skipped(inbox, ids, o)[i].origin = IF i \in ids THEN o ELSE inbox[i].origin
<1> DEFINE R == Skipped(inbox, ids, o)
<1>1. \A i \in Ids : inbox[i] \in EventType
  BY InboxFacts
<1>2. R = [i \in Ids |-> IF i \in ids THEN [inbox[i] EXCEPT !.state = "skipped", !.origin = o]
                         ELSE inbox[i]]
  BY DEF Skipped, Ids
<1>3. ASSUME NEW i \in Ids
      PROVE  /\ R[i] \in EventType /\ R[i].op = inbox[i].op
             /\ R[i].due = inbox[i].due /\ R[i].attempts = inbox[i].attempts
             /\ R[i].state = IF i \in ids THEN "skipped" ELSE inbox[i].state
             /\ R[i].origin = IF i \in ids THEN o ELSE inbox[i].origin
  <2>1. R[i] = IF i \in ids THEN [inbox[i] EXCEPT !.state = "skipped", !.origin = o]
               ELSE inbox[i]
    BY <1>2
  <2> HIDE DEF R
  <2> QED BY <1>1, <2>1 DEF EventType, States
<1> HIDE DEF R
<1>4. R \in [Ids -> EventType]
  BY <1>2, <1>3
<1> QED BY <1>3, <1>4 DEF R

\* A row that is put off keeps its state.
LEMMA DelayedIs ==
    ASSUME InboxTyped, NEW ids
    PROVE  /\ Delayed(inbox, ids) \in [Ids -> EventType]
           /\ \A i \in Ids : /\ Delayed(inbox, ids)[i].op = inbox[i].op
                             /\ Delayed(inbox, ids)[i].state = inbox[i].state
                             /\ Delayed(inbox, ids)[i].origin = inbox[i].origin
<1> DEFINE R == Delayed(inbox, ids)
<1>1. \A i \in Ids : inbox[i] \in EventType
  BY InboxFacts
<1>2. R = [i \in Ids |-> IF i \in ids
                         THEN [inbox[i] EXCEPT !.attempts = inbox[i].attempts + 1, !.due = FALSE]
                         ELSE inbox[i]]
  BY DEF Delayed, Ids
<1>3. ASSUME NEW i \in Ids
      PROVE  /\ R[i] \in EventType /\ R[i].op = inbox[i].op
             /\ R[i].state = inbox[i].state /\ R[i].origin = inbox[i].origin
  <2> DEFINE e == inbox[i]
             a == e.attempts + 1
  <2>1. e \in EventType /\ a \in Nat
    BY <1>1, SMTT(60) DEF EventType
  <2>2. R[i] = IF i \in ids THEN [e EXCEPT !.attempts = a, !.due = FALSE] ELSE e
    BY <1>2
  <2> HIDE DEF R, e, a
  <2>3. R[i] \in EventType /\ R[i].op = e.op /\ R[i].state = e.state /\ R[i].origin = e.origin
    BY <2>1, <2>2 DEF EventType
  <2> QED BY <2>3 DEF e
<1> HIDE DEF R
<1>4. R \in [Ids -> EventType]
  BY <1>2, <1>3
<1> QED BY <1>3, <1>4 DEF R

\* A row that changes its state keeps its operation and its origin.
LEMMA InStateIs ==
    ASSUME InboxTyped, NEW ids, NEW st \in States
    PROVE  /\ InState(inbox, ids, st) \in [Ids -> EventType]
           /\ \A i \in Ids : /\ InState(inbox, ids, st)[i].op = inbox[i].op
                             /\ InState(inbox, ids, st)[i].origin = inbox[i].origin
                             /\ i \in ids => InState(inbox, ids, st)[i].state = st
                             /\ i \notin ids => InState(inbox, ids, st)[i].state = inbox[i].state
<1> DEFINE R == InState(inbox, ids, st)
<1>1. \A i \in Ids : inbox[i] \in EventType
  BY InboxFacts
<1>2. R = [i \in Ids |-> IF i \in ids THEN [inbox[i] EXCEPT !.state = st] ELSE inbox[i]]
  BY DEF InState, Ids
<1>3. ASSUME NEW i \in Ids
      PROVE  /\ R[i] \in EventType /\ R[i].op = inbox[i].op
             /\ R[i].origin = inbox[i].origin
             /\ i \in ids => R[i].state = st
             /\ i \notin ids => R[i].state = inbox[i].state
  <2>1. R[i] = IF i \in ids THEN [inbox[i] EXCEPT !.state = st] ELSE inbox[i]
    BY <1>2
  <2> HIDE DEF R
  <2> QED BY <1>1, <2>1 DEF EventType
<1> HIDE DEF R
<1>4. R \in [Ids -> EventType]
  BY <1>2, <1>3
<1> QED BY <1>3, <1>4 DEF R

\* The oldest of some intents is one of them.
LEMMA OldestIs ==
    ASSUME IntentsTyped, NEW M \in SUBSET DOMAIN intents, M # {}
    PROVE  Oldest(M) \in M
<1>1. Len(intents) \in Nat /\ DOMAIN intents = 1..Len(intents)
  BY IntentsFacts
<1>2. M \in SUBSET Nat
  BY <1>1, SMTT(60)
<1>3. \E m \in M : \A x \in M : m <= x
  BY <1>2, Smallest
<1> QED BY <1>3 DEF Oldest

\* Rows rewritten in place stay typed, with their ids.
LEMMA Rewritten ==
    ASSUME InboxTyped, ops' = ops, inbox' \in [Ids -> EventType],
           \A i \in Ids : inbox'[i].op = inbox[i].op
    PROVE  /\ InboxTyped' /\ Ids' = Ids /\ Len(inbox') = Len(inbox)
           /\ \A i \in Ids : Kind(i)' = Kind(i) /\ Time(i)' = Time(i)
<1>1. Len(inbox) \in Nat /\ Ids = 1..Len(inbox)
  BY InboxFacts
<1>2. inbox' \in Seq(EventType) /\ Len(inbox') = Len(inbox)
  BY <1>1, SeqIs, SMTT(60)
<1>3. EventType' = EventType
  BY DEF EventType
<1>4. Ids' = Ids
  BY <1>1 DEF Ids
<1>5. \A i, j \in Ids : i # j => inbox[i].op # inbox[j].op
  BY DEF InboxTyped
<1>6. InboxTyped'
  BY <1>2, <1>3, <1>4, <1>5, SMTT(60) DEF InboxTyped
<1> QED BY <1>2, <1>4, <1>6 DEF Kind, Time
-----------------------------------------------------------------------------
(* What a step leaves alone stays typed. *)

\* Each part of the types holds while its variables stand still.
LEMMA FrameOps ==
    ASSUME OpsTyped, UNCHANGED <<sequenced, ops, clock, queue, dead, broken>>
    PROVE  OpsTyped'
BY DEF OpsTyped, OpType

\* The rows.
LEMMA FrameInbox ==
    ASSUME InboxTyped, ops' = ops, inbox' = inbox
    PROVE  /\ InboxTyped' /\ Ids' = Ids
           /\ \A i \in Ids : Kind(i)' = Kind(i) /\ Time(i)' = Time(i)
BY DEF InboxTyped, EventType, Ids, Kind, Time

\* The intents.
LEMMA FrameIntents ==
    ASSUME IntentsTyped, ops' = ops, intents' = intents
    PROVE  IntentsTyped'
BY DEF IntentsTyped, IntentType

\* The index row.
LEMMA FrameIndex ==
    ASSUME IndexTyped, ops' = ops, index' = index
    PROVE  IndexTyped'
BY DEF IndexTyped

\* The applier and the pass.
LEMMA FrameWork ==
    ASSUME WorkTyped, ops' = ops, Ids' = Ids, UNCHANGED <<lease, apply, pass, resolving>>
    PROVE  WorkTyped'
BY DEF WorkTyped, ApplyType, PassType, ResolvingType

\* The rest.
LEMMA FrameRest ==
    ASSUME RestTyped, UNCHANGED <<baseline, owed, faults, sub>>
    PROVE  RestTyped'
BY DEF RestTyped

\* A fault is counted within the bound.
LEMMA FaultTyped ==
    ASSUME RestTyped, Fault
    PROVE  faults' \in 0..MaxFaults
BY Bounds, SMTT(60) DEF RestTyped, Fault

\* The work in hand, when the rows keep their operations and the rows in hand
\* their states.
LEMMA FrameHand ==
    ASSUME WorkTyped, RowsInHand, UNCHANGED <<apply, pass>>, Ids \subseteq Ids',
           \A i \in Ids : Kind(i)' = Kind(i),
           \A i \in Ids : inbox[i].state \in {"pending", "applied"} =>
                              inbox'[i].state = inbox[i].state
    PROVE  RowsInHand'
<1>1. apply.rows \subseteq Ids /\ pass.rows \subseteq Ids
  BY DEF WorkTyped, ApplyType, PassType, ResolvingType
<1>2. apply.pc \in {"confirm", "settle"} => apply.latest \in Ids
  BY <1>1 DEF RowsInHand
<1> QED BY <1>1, <1>2 DEF RowsInHand

\* A write in progress is noted while nothing of it changes.
LEMMA FrameNoted ==
    ASSUME WritesNoted, UNCHANGED <<intents, ops, pass, resolving>>
    PROVE  WritesNoted'
BY DEF WritesNoted, Held

\* A pass that does not write keeps no intent.
LEMMA NotedPass ==
    ASSUME WritesNoted, UNCHANGED <<intents, ops, resolving>>,
           pass.pc \notin {"noted", "sent"}, pass'.pc \notin {"noted", "sent"}
    PROVE  WritesNoted'
<1>1. Held("pass") = {}
  BY DEF WritesNoted
<1>2. Held("pass")' = {} /\ Held("resolution")' = Held("resolution")
  BY <1>1 DEF Held
<1>3. \A by \in {"pass", "resolution"} : Held(by)' = Held(by)
  BY DEF Held
<1> QED BY <1>2, <1>3 DEF WritesNoted

\* An index row names an operation while nothing of it changes.
LEMMA FrameKnown ==
    ASSUME WorkTyped, RowsInHand, IndexKnown, UNCHANGED <<index, apply, ops>>,
           \A i \in Ids : Kind(i)' = Kind(i)
    PROVE  IndexKnown'
<1>1. apply.pc = "settle" => apply.latest \in Ids
  BY DEF WorkTyped, ApplyType, RowsInHand
<1>2. UNCHANGED <<Indexed, IndexedObject, Object>>
  BY DEF Indexed, IndexedObject, NoRow, Row, Object, None
<1> QED BY <1>1, <1>2 DEF IndexKnown

-----------------------------------------------------------------------------
(* The intents and the writes that keep them. *)

\* Who keeps an intent still keeps it when every intent is one of before and
\* a write that ended keeps none.
LEMMA NotedKeeps ==
    ASSUME WritesNoted, ops' = ops, NEW m,
           \A j \in DOMAIN intents' :
              m[j] \in DOMAIN intents /\ (intents'[j].by = "nobody" \/ intents'[j] = intents[m[j]]),
           \A i, j \in DOMAIN intents' : m[i] = m[j] => i = j,
           \/ pass' = pass /\ (Held("pass") # {} => Held("pass")' # {})
           \/ pass'.pc \notin {"noted", "sent"} /\ Held("pass")' = {},
           \/ resolving' = resolving
           \/ /\ Held("resolution")' = {}
              /\ \/ resolving'.pc = "off"
                 \/ /\ resolving.pc = "sent" /\ resolving'.pc = "done"
                    /\ resolving'.seen = resolving.seen
    PROVE  WritesNoted'
<1>1. ASSUME NEW by \in {"pass", "resolution"}, NEW k \in Held(by)'
      PROVE  k \in DOMAIN intents' /\ m[k] \in Held(by) /\ intents'[k] = intents[m[k]]
  BY <1>1 DEF Held
<1>2. pass'.pc \in {"noted", "sent"} => pass' = pass /\ (Held("pass")' # {} \/ "intentFails" \in Admit)
  BY DEF WritesNoted
<1>3. ASSUME NEW k \in Held("pass")'
      PROVE  /\ pass'.pc \in {"noted", "sent"}
             /\ intents'[k].op = pass'.kind /\ intents'[k].etag = None
  <2>1. pass' = pass
    BY <1>3
  <2>2. m[k] \in Held("pass") /\ intents'[k] = intents[m[k]]
    BY <1>1, <1>3
  <2>3. pass.pc \in {"noted", "sent"} /\ intents[m[k]].op = pass.kind /\ intents[m[k]].etag = None
    BY <2>2 DEF WritesNoted
  <2> QED BY <2>1, <2>2, <2>3
<1>4. ASSUME NEW k \in Held("resolution")'
      PROVE  /\ resolving'.pc \in {"noted", "sent"}
             /\ intents'[k].op = "Created" /\ intents'[k].etag = None
  <2>1. resolving' = resolving
    BY <1>4
  <2>2. m[k] \in Held("resolution") /\ intents'[k] = intents[m[k]]
    BY <1>1, <1>4
  <2>3. resolving.pc \in {"noted", "sent"} /\ intents[m[k]].op = "Created" /\ intents[m[k]].etag = None
    BY <2>2 DEF WritesNoted
  <2> QED BY <2>1, <2>2, <2>3
<1>5. ASSUME NEW by \in {"pass", "resolution"}, NEW k \in Held(by)', NEW l \in Held(by)'
      PROVE  k = l
  <2>1. m[k] = m[l]
    BY <1>1, <1>5 DEF WritesNoted
  <2> QED BY <1>1, <1>5, <2>1
<1>6. pass'.pc = "sent" =>
        pass'.seen # None /\ ops'[pass'.seen].own /\ ops'[pass'.seen].kind = pass'.kind
  BY <1>2 DEF WritesNoted
<1>7. /\ resolving'.pc \in {"sent", "done"} => resolving'.seen # None /\ ops'[resolving'.seen].own
      /\ resolving'.pc # "off" => "unleased" \in Admit
  BY DEF WritesNoted
<1> QED BY <1>2, <1>3, <1>4, <1>5, <1>6, <1>7 DEF WritesNoted

\* An intent that no write under the lease keeps is taken or expires.
LEMMA Taken ==
    ASSUME IntentsTyped, WritesNoted, UNCHANGED <<ops, pass, resolving>>,
           NEW k \in DOMAIN intents, intents[k].by # "pass", intents' = Without(intents, k)
    PROVE  WritesNoted' /\ IntentsTyped'
<1>1. intents \in Seq(IntentType) /\ IntentType' = IntentType
  BY DEF IntentsTyped, IntentType
<1>2. IntentsTyped'
  BY <1>1, WithoutKeeps DEF IntentsTyped
<1>3. PICK m \in [DOMAIN intents' -> DOMAIN intents] :
        /\ \A j \in DOMAIN intents' : intents'[j] = intents[m[j]] /\ m[j] # k
        /\ \A i, j \in DOMAIN intents' : m[i] = m[j] => i = j
        /\ \A l \in DOMAIN intents \ {k} : \E j \in DOMAIN intents' : m[j] = l
  BY <1>1, WithoutKeeps, SMTT(60)
<1>4. ASSUME NEW l \in Held("pass") PROVE Held("pass")' # {}
  <2>1. l \in DOMAIN intents \ {k} /\ intents[l].by = "pass"
    BY <1>4 DEF Held
  <2>2. PICK j \in DOMAIN intents' : m[j] = l
    BY <1>3, <2>1
  <2>3. intents'[j].by = "pass"
    BY <1>3, <2>1, <2>2
  <2> QED BY <2>3 DEF Held
<1>5. \A j \in DOMAIN intents' : m[j] \in DOMAIN intents
  BY <1>3
<1>6. WritesNoted'
  <2>1. Held("pass") # {} => Held("pass")' # {}
    BY <1>4
  <2> HIDE DEF Held
  <2> QED BY <1>3, <1>5, <2>1, NotedKeeps, SMTT(60)
<1> QED BY <1>2, <1>6

\* remove() takes out the intent its write keeps, if it is still there.
LEMMA ForgottenIs ==
    ASSUME IntentsTyped, WritesNoted, ops' = ops, NEW by \in {"pass", "resolution"},
           intents' = Forgotten(by)
    PROVE  /\ IntentsTyped' /\ Held(by)' = {}
           /\ \E m \in [DOMAIN intents' -> DOMAIN intents] :
                 /\ \A j \in DOMAIN intents' : intents'[j] = intents[m[j]]
                 /\ \A i, j \in DOMAIN intents' : m[i] = m[j] => i = j
                 /\ \A l \in DOMAIN intents \ Held(by) : \E j \in DOMAIN intents' : m[j] = l
<1>1. intents \in Seq(IntentType) /\ IntentType' = IntentType
  BY DEF IntentsTyped, IntentType
<1>2. CASE Held(by) = {}
  <2>1. intents' = intents
    BY <1>2 DEF Forgotten
  <2> DEFINE m == [j \in DOMAIN intents |-> j]
  <2>2. m \in [DOMAIN intents' -> DOMAIN intents] /\ \A j \in DOMAIN intents : m[j] = j
    BY <2>1
  <2> HIDE DEF m
  <2>3. Held(by)' = {} /\ IntentsTyped'
    BY <1>1, <1>2, <2>1 DEF Held, IntentsTyped
  <2> QED BY <2>1, <2>2, <2>3
<1>3. CASE Held(by) # {}
  <2> DEFINE k == Oldest(Held(by))
  <2>0. Held(by) \in SUBSET DOMAIN intents
    BY DEF Held
  <2>1. k \in Held(by) /\ k \in DOMAIN intents
    BY <1>3, <2>0, OldestIs
  <2>2. intents' = Without(intents, k)
    BY <1>3 DEF Forgotten
  <2> HIDE DEF k
  <2>3. \A l \in Held(by) : l = k
    BY <2>1 DEF WritesNoted
  <2>4. IntentsTyped'
    <3>1. intents' \in Seq(IntentType)
      BY <1>1, <2>1, <2>2, WithoutKeeps, SMTT(60)
    <3> QED BY <1>1, <3>1 DEF IntentsTyped
  <2>5. PICK m \in [DOMAIN intents' -> DOMAIN intents] :
          /\ \A j \in DOMAIN intents' : intents'[j] = intents[m[j]] /\ m[j] # k
          /\ \A i, j \in DOMAIN intents' : m[i] = m[j] => i = j
          /\ \A l \in DOMAIN intents \ {k} : \E j \in DOMAIN intents' : m[j] = l
    <3>1. k \in DOMAIN intents /\ intents' = Without(intents, k)
      BY <2>1, <2>2
    <3> QED BY <1>1, <3>1, WithoutKeeps, SMTT(120)
  <2>6. Held(by)' = {}
    <3>1. ASSUME NEW j \in DOMAIN intents' PROVE intents'[j].by # by
      <4>1. m[j] \in DOMAIN intents /\ m[j] # k /\ intents'[j] = intents[m[j]]
        BY <2>5
      <4>2. m[j] \notin Held(by)
        BY <2>3, <4>1
      <4> QED BY <4>1, <4>2 DEF Held
    <3> QED BY <3>1 DEF Held
  <2>7. \A l \in DOMAIN intents \ Held(by) : \E j \in DOMAIN intents' : m[j] = l
    BY <2>1, <2>5
  <2> QED BY <2>4, <2>5, <2>6, <2>7
<1> QED BY <1>2, <1>3

\* complete() lets go of the intent its write keeps, if it is still there.
LEMMA CompletedIs ==
    ASSUME IntentsTyped, ops' = ops, NEW by \in {"pass", "resolution"}, NEW e \in 0..Len(ops),
           intents' = Completed(by, e)
    PROVE  /\ IntentsTyped' /\ Held(by)' = {} /\ DOMAIN intents' = DOMAIN intents
           /\ \A k \in DOMAIN intents :
                 /\ intents'[k].op = intents[k].op
                 /\ k \in Held(by) => intents'[k].etag = e /\ intents'[k].by = "nobody"
                 /\ k \notin Held(by) => intents'[k] = intents[k]
<1>1. /\ Len(intents) \in Nat /\ DOMAIN intents = 1..Len(intents)
      /\ \A k \in 1..Len(intents) : intents[k] \in IntentType
  BY IntentsFacts
<1>2. intents' = [k \in DOMAIN intents |->
                    IF intents[k].by = by THEN [intents[k] EXCEPT !.etag = e, !.by = "nobody"]
                    ELSE intents[k]]
  BY DEF Completed
<1>3. DOMAIN intents' = DOMAIN intents
  BY <1>2
<1>4. ASSUME NEW k \in DOMAIN intents
      PROVE  /\ intents'[k] \in IntentType /\ intents'[k].op = intents[k].op
             /\ intents[k].by = by => intents'[k].etag = e /\ intents'[k].by = "nobody"
             /\ intents[k].by # by => intents'[k] = intents[k]
  <2>1. intents[k] \in IntentType
    BY <1>1
  <2>2. intents'[k] = IF intents[k].by = by THEN [intents[k] EXCEPT !.etag = e, !.by = "nobody"]
                      ELSE intents[k]
    BY <1>2
  <2> QED BY <2>1, <2>2 DEF IntentType
<1>5. intents' \in [1..Len(intents) -> IntentType]
  BY <1>1, <1>2, <1>4
<1>6. IntentsTyped'
  <2>1. intents' \in Seq(IntentType) /\ IntentType' = IntentType
    BY <1>1, <1>3, <1>5, SeqIs DEF IntentType
  <2> QED BY <2>1 DEF IntentsTyped
<1>7. Held(by)' = {}
  BY <1>3, <1>4 DEF Held
<1> QED BY <1>3, <1>4, <1>6, <1>7 DEF Held

\* The write of the pass ends, one way or the other.
LEMMA LetGo ==
    ASSUME IntentsTyped, WritesNoted, ops' = ops, NEW by \in {"pass", "resolution"},
           \/ intents' = Forgotten(by)
           \/ \E e \in 0..Len(ops) : intents' = Completed(by, e),
           IF by = "pass" THEN pass'.pc \notin {"noted", "sent"} /\ resolving' = resolving
           ELSE /\ pass' = pass
                /\ \/ resolving'.pc = "off"
                   \/ /\ resolving.pc = "sent" /\ resolving'.pc = "done"
                      /\ resolving'.seen = resolving.seen
    PROVE  IntentsTyped' /\ WritesNoted'
<1>1. CASE intents' = Forgotten(by)
  <2>1. IntentsTyped' /\ Held(by)' = {}
    BY <1>1, ForgottenIs
  <2>2. PICK m \in [DOMAIN intents' -> DOMAIN intents] :
          /\ \A j \in DOMAIN intents' : intents'[j] = intents[m[j]]
          /\ \A i, j \in DOMAIN intents' : m[i] = m[j] => i = j
          /\ \A l \in DOMAIN intents \ Held(by) : \E j \in DOMAIN intents' : m[j] = l
    BY <1>1, ForgottenIs
  <2>3. ASSUME by # "pass", NEW l \in Held("pass") PROVE Held("pass")' # {}
    <3>1. l \in DOMAIN intents \ Held(by) /\ intents[l].by = "pass"
      BY <2>3 DEF Held
    <3>2. PICK j \in DOMAIN intents' : m[j] = l
      BY <2>2, <3>1
    <3>3. intents'[j].by = "pass"
      BY <2>2, <3>1, <3>2
    <3> QED BY <3>3 DEF Held
  <2>4. \A j \in DOMAIN intents' : m[j] \in DOMAIN intents
    BY <2>2
  <2>5. WritesNoted'
    <3>1. by # "pass" => (Held("pass") # {} => Held("pass")' # {})
      BY <2>3
    <3> QED BY <2>1, <2>2, <2>4, <3>1, NotedKeeps, SMTT(60)
  <2> QED BY <2>1, <2>5
<1>2. ASSUME NEW e \in 0..Len(ops), intents' = Completed(by, e)
      PROVE  IntentsTyped' /\ WritesNoted'
  <2>1. /\ IntentsTyped' /\ Held(by)' = {} /\ DOMAIN intents' = DOMAIN intents
        /\ \A k \in DOMAIN intents :
              /\ k \in Held(by) => intents'[k].by = "nobody"
              /\ k \notin Held(by) => intents'[k] = intents[k]
    BY <1>2, CompletedIs
  <2> DEFINE m == [j \in DOMAIN intents |-> j]
  <2>2. \A j \in DOMAIN intents : m[j] = j
    OBVIOUS
  <2> HIDE DEF m
  <2>3. by # "pass" /\ Held("pass") # {} => Held("pass")' # {}
    BY <2>1 DEF Held
  <2>4. WritesNoted'
    <3>1. /\ \A j \in DOMAIN intents' :
                m[j] \in DOMAIN intents /\ (intents'[j].by = "nobody" \/ intents'[j] = intents[m[j]])
          /\ \A i, j \in DOMAIN intents' : m[i] = m[j] => i = j
      BY <2>1, <2>2
    <3> QED BY <2>1, <2>3, <3>1, NotedKeeps, SMTT(60)
  <2> QED BY <2>1, <2>4
<1> QED BY <1>1, <1>2

\* record() adds the intent of a write.
LEMMA NotedIs ==
    ASSUME OpsTyped, IntentsTyped, ops' = ops, NEW kind \in Kinds,
           NEW by \in {"pass", "resolution"}, intents' = Noted(by, kind)
    PROVE  /\ IntentsTyped' /\ Len(intents) + 1 \notin DOMAIN intents
           /\ DOMAIN intents' = DOMAIN intents \cup {Len(intents) + 1}
           /\ \A k \in DOMAIN intents : intents'[k] = intents[k]
           /\ intents'[Len(intents) + 1] = [op |-> kind, etag |-> None, at |-> clock, by |-> by]
<1> DEFINE e == [op |-> kind, etag |-> None, at |-> clock, by |-> by]
<1>1. e \in IntentType /\ IntentType' = IntentType
  BY OpsFacts, SMTT(60) DEF IntentType, OpsTyped, None
<1>2. /\ intents \in Seq(IntentType) /\ Len(intents) \in Nat /\ intents' = Append(intents, e)
      /\ DOMAIN intents = 1..Len(intents)
  BY IntentsFacts DEF IntentsTyped, Noted
<1> HIDE DEF e
<1>3. /\ intents' \in Seq(IntentType) /\ Len(intents') = Len(intents) + 1
      /\ \A k \in 1..Len(intents) : intents'[k] = intents[k]
      /\ intents'[Len(intents) + 1] = e
  BY <1>1, <1>2, AppendIs, SMTT(60)
<1>4. DOMAIN intents' = 1..Len(intents) + 1
  BY <1>3, LenIs
<1>5. /\ 1..Len(intents) + 1 = 1..Len(intents) \cup {Len(intents) + 1}
      /\ Len(intents) + 1 \notin 1..Len(intents)
  BY <1>2, SMTT(60)
<1> QED BY <1>1, <1>2, <1>3, <1>4, <1>5 DEF IntentsTyped, e

-----------------------------------------------------------------------------
(* Types and work in hand, action by action. *)

Base == TypeOK /\ InboxInv

\* Base is the conjunction of its parts.
LEMMA BaseParts ==
    Base <=> /\ OpsTyped /\ InboxTyped /\ IntentsTyped /\ IndexTyped /\ WorkTyped
             /\ RestTyped /\ RowsInHand /\ WritesNoted /\ IndexKnown
BY TypeParts DEF Base, InboxInv

\* The same of the next state.
LEMMA BaseNext ==
    ASSUME OpsTyped', InboxTyped', IntentsTyped', IndexTyped', WorkTyped', RestTyped',
           RowsInHand', WritesNoted', IndexKnown'
    PROVE  Base'
BY DEF Base, InboxInv, TypeOK, OpsTyped, InboxTyped, IntentsTyped, IndexTyped,
             WorkTyped, RestTyped

\* Base holds initially.
LEMMA BaseInit == Init => Base
<1> SUFFICES ASSUME Init PROVE Base
  OBVIOUS
<1> USE DEF Init, NoRow, Row, None
<1>1. /\ Len(ops) = 0 /\ ops \in Seq(OpType) /\ DOMAIN ops = {}
      /\ inbox \in Seq(EventType) /\ Ids = {} /\ intents \in Seq(IntentType)
      /\ DOMAIN intents = {}
  <2>1. /\ \A S : <<>> \in Seq(S) /\ Len(<<>>) = 0
        /\ DOMAIN <<>> = {}
    BY EmptyIs, SMTT(60)
  <2> QED BY <2>1 DEF Ids
<1>8. 1 \in 1..MaxClock /\ 0 \in 0..MaxClock /\ 0 \in 0..MaxFaults /\ 0 <= MaxOps
  BY Bounds, SMTT(60)
<1>2. OpsTyped
  <2>1. sequenced \in BOOLEAN /\ dead \in BOOLEAN /\ queue \subseteq DOMAIN ops
    BY Bounds
  <2> QED BY <1>8, <1>1, <2>1 DEF OpsTyped
<1>3. InboxTyped /\ IntentsTyped
  BY <1>1 DEF InboxTyped, IntentsTyped
<1>4. IndexTyped
  BY <1>1, SMTT(60) DEF IndexTyped
<1>5. WorkTyped
  BY <1>1, Bounds, SMTT(60) DEF WorkTyped, ApplyType, PassType, ResolvingType, NoPass,
     NoResolution, Kinds
<1>6. RestTyped
  <2>1. baseline \in [held : BOOLEAN, at : 0..MaxClock]
    BY <1>8
  <2>2. owed \in BOOLEAN
    OBVIOUS
  <2> QED BY <1>8, <2>1, <2>2 DEF RestTyped
<1>7. RowsInHand /\ WritesNoted /\ IndexKnown
  BY <1>1 DEF RowsInHand, WritesNoted, Held, IndexKnown, NoPass, NoResolution, Indexed
<1> QED BY <1>2, <1>3, <1>4, <1>5, <1>6, <1>7, BaseParts

\* A new operation of the provider.
LEMMA OpsGrow ==
    ASSUME OpsTyped, NEW kind \in Kinds, NEW own \in BOOLEAN, Operate(kind, own), clock' = clock
    PROVE  /\ OpsTyped' /\ Len(ops') = Len(ops) + 1 /\ DOMAIN ops' = 1..Len(ops) + 1
           /\ \A n \in 1..Len(ops) : ops'[n] = ops[n]
           /\ ops'[Len(ops) + 1] = [kind |-> kind, ms |-> clock, own |-> own]
           /\ Object' = IF kind = "Created" THEN Len(ops) + 1 ELSE None
<1> DEFINE e == [kind |-> kind, ms |-> clock, own |-> own]
<1>1. e \in OpType /\ e.kind = kind
  BY DEF OpsTyped, OpType
<1>2. ops \in Seq(OpType) /\ Len(ops) \in Nat /\ DOMAIN ops = 1..Len(ops)
  BY OpsFacts DEF OpsTyped
<1>3. ops' = Append(ops, e) /\ queue' = queue \cup {Len(ops) + 1} /\ Len(ops) < MaxOps
  BY DEF Operate, Room
<1> HIDE DEF e
<1>4. /\ ops' \in Seq(OpType) /\ Len(ops') = Len(ops) + 1
      /\ \A n \in 1..Len(ops) : ops'[n] = ops[n]
      /\ ops'[Len(ops) + 1] = e
  BY <1>1, <1>2, <1>3, AppendIs, SMTT(60)
<1>5. DOMAIN ops' = 1..Len(ops) + 1 /\ ops' # <<>>
  BY <1>2, <1>4, LenIs, EmptyIs, SMTT(60)
<1>6. OpsTyped'
  BY <1>2, <1>3, <1>4, <1>5, Bounds, SMTT(60) DEF OpsTyped, Operate, OpType
<1>7. Object' = IF kind = "Created" THEN Len(ops) + 1 ELSE None
  BY <1>1, <1>2, <1>4, <1>5 DEF Object, None
<1> QED BY <1>4, <1>5, <1>6, <1>7 DEF e

\* What was typed stays typed when the provider takes an operation.
LEMMA Grown ==
    ASSUME OpsTyped, Len(ops') = Len(ops) + 1, DOMAIN ops' = 1..Len(ops) + 1,
           \A n \in 1..Len(ops) : ops'[n] = ops[n]
    PROVE  /\ (InboxTyped /\ inbox' = inbox) =>
                 /\ InboxTyped' /\ Ids' = Ids
                 /\ \A i \in Ids : Kind(i)' = Kind(i) /\ Time(i)' = Time(i)
           /\ (IntentsTyped /\ intents' = intents) => IntentsTyped'
           /\ (IndexTyped /\ index' = index) => IndexTyped'
<1>1. Len(ops) \in Nat /\ DOMAIN ops = 1..Len(ops)
  BY OpsFacts
<1>2. ASSUME InboxTyped, inbox' = inbox
      PROVE  /\ InboxTyped' /\ Ids' = Ids
             /\ \A i \in Ids : Kind(i)' = Kind(i) /\ Time(i)' = Time(i)
  <2>1. Ids' = Ids
    BY <1>2 DEF Ids
  <2>2. \A e \in EventType : e \in EventType'
    BY <1>1, SMTT(60) DEF EventType
  <2>3. inbox \in Seq(EventType')
    BY <1>2, <2>2, WiderSeq DEF InboxTyped
  <2>4. InboxTyped'
    BY <1>2, <2>1, <2>3 DEF InboxTyped
  <2>5. \A i \in Ids : inbox[i].op \in 1..Len(ops)
    BY <1>1, <1>2, InboxFacts DEF EventType
  <2> QED BY <1>2, <2>1, <2>4, <2>5 DEF Kind, Time
<1>3. ASSUME IntentsTyped, intents' = intents
      PROVE  IntentsTyped'
  <2>1. \A e \in IntentType : e \in IntentType'
    BY <1>1, SMTT(60) DEF IntentType
  <2>2. intents \in Seq(IntentType')
    BY <1>3, <2>1, WiderSeq DEF IntentsTyped
  <2> QED BY <1>3, <2>2 DEF IntentsTyped
<1>4. ASSUME IndexTyped, index' = index
      PROVE  IndexTyped'
  BY <1>1, <1>4, SMTT(60) DEF IndexTyped
<1> QED BY <1>2, <1>3, <1>4

\* What the index knew before an operation is not the object after it.
LEMMA GrownKnown ==
    ASSUME OpsTyped, IndexTyped, WorkTyped, RowsInHand, IndexKnown,
           UNCHANGED <<index, apply>>,
           Object' \in {None, Len(ops) + 1},
           \A i \in Ids : Kind(i)' = Kind(i)
    PROVE  IndexKnown'
<1>1. Len(ops) \in Nat
  BY OpsFacts
<1>2. UNCHANGED <<Indexed, IndexedObject>> /\ IndexedObject \in 0..Len(ops)
  BY DEF Indexed, IndexedObject, NoRow, Row, None, IndexTyped
<1>3. Indexed => IndexedObject # None
  BY DEF IndexKnown
<1>4. Indexed => IndexedObject \notin {None, Len(ops) + 1}
  BY <1>1, <1>2, <1>3, SMTT(60)
<1> QED BY <1>2, <1>3, <1>4 DEF IndexKnown

\* An operation is no news to the writes in progress.
LEMMA GrownNoted ==
    ASSUME OpsTyped, WorkTyped, WritesNoted, UNCHANGED <<intents, pass, resolving>>,
           \A n \in 1..Len(ops) : ops'[n] = ops[n]
    PROVE  WritesNoted'
<1>1. Len(ops) \in Nat /\ pass.seen \in 0..Len(ops) /\ resolving.seen \in 0..Len(ops)
  BY OpsFacts DEF WorkTyped, PassType, ResolvingType
<1>2. /\ pass.seen # None => ops'[pass.seen] = ops[pass.seen]
      /\ resolving.seen # None => ops'[resolving.seen] = ops[resolving.seen]
  BY <1>1, SMTT(60) DEF None
<1> QED BY <1>2 DEF WritesNoted, Held

\* Another application operates on the key.
LEMMA BaseExternal ==
    ASSUME Base, NEW kind \in Kinds, External(kind) PROVE Base'
<1>1. /\ OpsTyped /\ InboxTyped /\ IntentsTyped /\ IndexTyped /\ WorkTyped
      /\ RestTyped /\ RowsInHand /\ WritesNoted /\ IndexKnown
  BY BaseParts
<1>2. /\ Operate(kind, FALSE)
      /\ UNCHANGED <<clock, inbox, intents, index, lease, apply, pass, baseline, owed, faults,
                     resolving, sub>>
  BY DEF External
<1>3. /\ OpsTyped' /\ Len(ops') = Len(ops) + 1 /\ DOMAIN ops' = 1..Len(ops) + 1
      /\ \A n \in 1..Len(ops) : ops'[n] = ops[n]
      /\ Object' \in {None, Len(ops) + 1}
  BY <1>1, <1>2, OpsGrow
<1>4. /\ InboxTyped' /\ Ids' = Ids /\ IntentsTyped' /\ IndexTyped'
      /\ \A i \in Ids : Kind(i)' = Kind(i)
  BY <1>1, <1>2, <1>3, Grown
<1>5. Len(ops) \in Nat
  BY <1>1, OpsFacts
<1>6. WorkTyped'
  BY <1>1, <1>2, <1>3, <1>4, <1>5, SMTT(60) DEF WorkTyped, ApplyType, PassType, ResolvingType
<1>7. RestTyped'
  BY <1>1, <1>2, FrameRest
<1>8. RowsInHand'
  BY <1>1, <1>2, <1>4, FrameHand
<1>9. WritesNoted'
  BY <1>1, <1>2, <1>3, GrownNoted
<1>10. IndexKnown'
  BY <1>1, <1>2, <1>3, <1>4, GrownKnown
<1> QED BY <1>3, <1>4, <1>6, <1>7, <1>8, <1>9, <1>10, BaseNext
-----------------------------------------------------------------------------
(* The choices among rows. *)

\* The numbers of a row are within their bounds.
LEMMA RowNumbers ==
    ASSUME OpsTyped, InboxTyped
    PROVE  \A i \in Ids : /\ i \in 0..Len(inbox) /\ Time(i) \in 0..MaxClock
                          /\ inbox[i].op \in 1..Len(ops) /\ inbox[i].op \in 0..Len(ops)
                          /\ Kind(i) \in Kinds
<1>1. /\ Len(ops) \in Nat /\ DOMAIN ops = 1..Len(ops)
      /\ \A n \in 1..Len(ops) : ops[n] \in OpType
  BY OpsFacts
<1>2. /\ Len(inbox) \in Nat /\ Ids = 1..Len(inbox)
      /\ \A i \in Ids : inbox[i] \in EventType
  BY InboxFacts
<1>3. \A i \in Ids : inbox[i].op \in 1..Len(ops)
  BY <1>1, <1>2 DEF EventType
<1>4. \A i \in Ids : Time(i) \in 1..MaxClock /\ Kind(i) \in Kinds
  BY <1>1, <1>3 DEF OpType, Time, Kind
<1> QED BY <1>1, <1>2, <1>3, <1>4, Bounds, SMTT(60)

\* A batch has a newest row.
LEMMA NewestIs ==
    ASSUME OpsTyped, InboxTyped, NEW rows \in SUBSET Ids, rows # {}
    PROVE  /\ Newest(rows) \in rows
           /\ \A b \in rows : newerOrEqual(Newest(rows), b)
<1>1. \A i \in rows : /\ i \in 0..Len(inbox) /\ Time(i) \in 0..MaxClock
                      /\ inbox[i].op \in 0..Len(ops) /\ Kind(i) \in Kinds
  BY RowNumbers
<1>2. Len(inbox) \in Nat /\ Len(ops) \in Nat /\ MaxClock \in Nat
  BY InboxFacts, OpsFacts, Bounds
<1>3. \E a \in rows : \A b \in rows : newerOrEqual(a, b)
  <2>1. CASE sequenced
    <3> DEFINE S == {inbox[i].op : i \in rows}
    <3>1. S \in SUBSET (0..Len(ops)) /\ S # {}
      BY <1>1
    <3>2. PICK m \in S : \A x \in S : x <= m
      <4> HIDE DEF S
      <4> QED BY <1>2, <3>1, Greatest
    <3>3. PICK a \in rows : m = inbox[a].op
      OBVIOUS
    <3>4. \A b \in rows : inbox[b].op <= inbox[a].op
      BY <3>2, <3>3
    <3> QED BY <1>1, <1>2, <2>1, <3>4 DEF newerOrEqual
  <2>2. CASE ~sequenced
    <3> DEFINE S == {Time(i) : i \in rows}
    <3>1. S \in SUBSET (0..MaxClock) /\ S # {}
      BY <1>1
    <3>2. PICK t \in S : \A x \in S : x <= t
      <4> HIDE DEF S
      <4> QED BY <1>2, <3>1, Greatest
    <3>3. \A b \in rows : Time(b) <= t
      BY <3>2
    <3> DEFINE L == {i \in rows : Time(i) = t}
               G == IF \E i \in L : Kind(i) = "Removed"
                    THEN {i \in L : Kind(i) = "Removed"} ELSE L
    <3>4. G \in SUBSET (0..Len(inbox)) /\ G # {}
      <4>1. L # {}
        BY <3>2
      <4> QED BY <1>1, <4>1
    <3>5. PICK a \in G : \A x \in G : x <= a
      <4> HIDE DEF G
      <4> QED BY <1>2, <3>4, Greatest
    <3>6. /\ a \in rows /\ Time(a) = t
          /\ \A i \in rows : (Time(i) = t /\ Kind(i) = "Removed") => Kind(a) = "Removed"
          /\ \A i \in rows : (Time(i) = t /\ Kind(i) = Kind(a)) => i <= a
      BY <3>5
    <3> HIDE DEF S, L, G
    <3>7. ASSUME NEW b \in rows PROVE newerOrEqual(a, b)
      <4>1. CASE Time(b) = t
        BY <1>1, <1>2, <2>2, <3>6, <4>1 DEF newerOrEqual, Kinds
      <4>2. CASE Time(b) # t
        BY <1>1, <1>2, <2>2, <3>3, <3>6, <4>2, SMTT(60) DEF newerOrEqual
      <4> QED BY <4>1, <4>2
    <3> QED BY <3>6, <3>7
  <2> QED BY <2>1, <2>2
<1> QED BY <1>3 DEF Newest

\* A set of rows has a first and a last one in the order of the queries.
LEMMA FirstIs ==
    ASSUME OpsTyped, InboxTyped, NEW rows \in SUBSET Ids, rows # {}
    PROVE  First(rows) \in rows
<1>1. \A i \in rows : /\ i \in 0..Len(inbox) /\ Time(i) \in 0..MaxClock
                      /\ inbox[i].op \in 0..Len(ops)
  BY RowNumbers
<1>2. Len(inbox) \in Nat /\ Len(ops) \in Nat /\ MaxClock \in Nat
  BY InboxFacts, OpsFacts, Bounds
<1>3. \E a \in rows : \A b \in rows : Before(a, b)
  <2>1. CASE sequenced
    <3> DEFINE S == {inbox[i].op : i \in rows}
    <3>1. S \in SUBSET Nat /\ S # {}
      BY <1>1, <1>2, SMTT(60)
    <3>2. PICK m \in S : \A x \in S : m <= x
      <4> HIDE DEF S
      <4> QED BY <3>1, Smallest
    <3> QED BY <2>1, <3>2 DEF Before
  <2>2. CASE ~sequenced
    <3> DEFINE S == {Time(i) : i \in rows}
    <3>1. S \in SUBSET Nat /\ S # {}
      BY <1>1, <1>2, SMTT(60)
    <3>2. PICK t \in S : \A x \in S : t <= x
      <4> HIDE DEF S
      <4> QED BY <3>1, Smallest
    <3> DEFINE L == {i \in rows : Time(i) = t}
    <3>3. L \in SUBSET Nat /\ L # {}
      BY <1>1, <1>2, <3>2, SMTT(60)
    <3>4. PICK a \in L : \A x \in L : a <= x
      <4> HIDE DEF L
      <4> QED BY <3>3, Smallest
    <3>5. a \in rows /\ Time(a) = t /\ \A b \in rows : t <= Time(b) /\ (Time(b) = t => a <= b)
      BY <3>2, <3>4
    <3> HIDE DEF S, L
    <3> QED BY <1>1, <1>2, <2>2, <3>5, SMTT(60) DEF Before
  <2> QED BY <2>1, <2>2
<1> QED BY <1>3 DEF First

\* The row latestForKey reads.
LEMMA LatestRow ==
    ASSUME OpsTyped, InboxTyped, Ids # {}
    PROVE  latestForKey \in Ids /\ \A b \in Ids : Before(b, latestForKey)
<1>1. \A i \in Ids : /\ i \in 0..Len(inbox) /\ Time(i) \in 0..MaxClock
                     /\ inbox[i].op \in 0..Len(ops)
  BY RowNumbers
<1>2. Len(inbox) \in Nat /\ Len(ops) \in Nat /\ MaxClock \in Nat
  BY InboxFacts, OpsFacts, Bounds
<1>3. \E a \in Ids : \A b \in Ids : Before(b, a)
  <2>1. CASE sequenced
    <3> DEFINE S == {inbox[i].op : i \in Ids}
    <3>1. S \in SUBSET (0..Len(ops)) /\ S # {}
      BY <1>1
    <3>2. PICK m \in S : \A x \in S : x <= m
      <4> HIDE DEF S
      <4> QED BY <1>2, <3>1, Greatest
    <3> QED BY <2>1, <3>2 DEF Before
  <2>2. CASE ~sequenced
    <3> DEFINE S == {Time(i) : i \in Ids}
    <3>1. S \in SUBSET (0..MaxClock) /\ S # {}
      BY <1>1
    <3>2. PICK t \in S : \A x \in S : x <= t
      <4> HIDE DEF S
      <4> QED BY <1>2, <3>1, Greatest
    <3> DEFINE L == {i \in Ids : Time(i) = t}
    <3>3. L \in SUBSET (0..Len(inbox)) /\ L # {}
      BY <1>1, <3>2
    <3>4. PICK a \in L : \A x \in L : x <= a
      <4> HIDE DEF L
      <4> QED BY <1>2, <3>3, Greatest
    <3>5. a \in Ids /\ Time(a) = t /\ \A b \in Ids : Time(b) <= t /\ (Time(b) = t => b <= a)
      BY <3>2, <3>4
    <3> HIDE DEF S, L
    <3> QED BY <1>1, <1>2, <2>2, <3>5, SMTT(60) DEF Before
  <2> QED BY <2>1, <2>2
<1> QED BY <1>3 DEF latestForKey
-----------------------------------------------------------------------------
(* The other actions. *)

\* Who holds the lease works alone.
LEMMA ApplierAlone ==
    ASSUME Base, apply.pc \in {"confirm", "settle", "mark", "release"}
    PROVE  lease = "applier" /\ pass.pc = "off" /\ pass.rows = {}
<1>1. WorkTyped /\ RowsInHand
  BY BaseParts
<1>2. lease = "applier" /\ pass.pc = "off"
  BY <1>1 DEF WorkTyped, PassType
<1> QED BY <1>1, <1>2 DEF RowsInHand

\* The same of a pass.
LEMMA PassAlone ==
    ASSUME Base, pass.pc # "off"
    PROVE  apply.pc \in {"idle", "schedule"} /\ apply.rows = {} /\ apply.latest = None
<1>1. WorkTyped /\ RowsInHand
  BY BaseParts
<1>2. apply.pc \in {"idle", "schedule"}
  BY <1>1 DEF WorkTyped, ApplyType, PassType, ResolvingType
<1> QED BY <1>1, <1>2 DEF RowsInHand

\* Base holds while the lease and what goes with it stand still.
LEMMA Still ==
    ASSUME Base, UNCHANGED <<ops, inbox, intents, index, lease, apply, pass, resolving>>
    PROVE  /\ InboxTyped' /\ IntentsTyped' /\ IndexTyped' /\ WorkTyped'
           /\ RowsInHand' /\ WritesNoted' /\ IndexKnown'
<1>1. /\ InboxTyped /\ IntentsTyped /\ IndexTyped /\ WorkTyped
      /\ RowsInHand /\ WritesNoted /\ IndexKnown
  BY BaseParts
<1>2. /\ InboxTyped' /\ Ids' = Ids
      /\ \A i \in Ids : Kind(i)' = Kind(i)
  BY <1>1, FrameInbox
<1>3. IntentsTyped' /\ IndexTyped'
  BY <1>1, FrameIntents, FrameIndex
<1>4. WorkTyped'
  BY <1>1, <1>2, FrameWork
<1>5. RowsInHand'
  BY <1>1, <1>2, FrameHand
<1>6. WritesNoted'
  BY <1>1, FrameNoted
<1>7. IndexKnown'
  BY <1>1, <1>2, FrameKnown
<1> QED BY <1>2, <1>3, <1>4, <1>5, <1>6, <1>7

\* Nothing happens.
LEMMA BaseStutter ==
    ASSUME Base, UNCHANGED vars PROVE Base'
<1>1. /\ UNCHANGED <<ops, inbox, intents, index, lease, apply, pass, resolving>>
      /\ UNCHANGED <<sequenced, ops, clock, queue, dead, broken>>
      /\ UNCHANGED <<baseline, owed, faults, resolving, sub>>
  BY DEF vars, provider, stream
<1>2. OpsTyped' /\ RestTyped'
  BY <1>1, BaseParts, FrameOps, FrameRest
<1> QED BY <1>1, <1>2, Still, BaseNext

\* Time, gaps and lost messages.
LEMMA BaseStream ==
    ASSUME Base,
           \/ \E m \in Ops : Lose(m)
           \/ Tick \/ checkDeadLetters \/ checkContinuity
    PROVE  Base'
<1>1. UNCHANGED <<sequenced, ops, inbox, intents, index, lease, apply, pass, resolving, owed>>
  BY DEF Lose, Tick, checkDeadLetters, checkContinuity, provider, stream
<1>2. OpsTyped /\ RestTyped
  BY BaseParts
<1>3. OpsTyped'
  <2> USE <1>1, <1>2, Bounds DEF OpsTyped, OpType
  <2>1. CASE \E m \in Ops : Lose(m)
    <3>1. queue' \subseteq queue /\ dead' = TRUE /\ UNCHANGED <<clock, broken>>
      BY <2>1 DEF Lose
    <3> QED BY <3>1
  <2>2. CASE Tick
    BY <2>2, SMTT(60) DEF Tick, stream
  <2>3. CASE checkDeadLetters
    <3>1. dead' \in BOOLEAN /\ broken' = clock /\ UNCHANGED <<clock, queue>>
      BY <2>3 DEF checkDeadLetters
    <3> QED BY <3>1, SMTT(60)
  <2>4. CASE checkContinuity
    BY <2>4 DEF checkContinuity, stream
  <2> QED BY <2>1, <2>2, <2>3, <2>4
<1>4. RestTyped'
  <2>1. CASE \E m \in Ops : Lose(m)
    BY <1>1, <1>2, <2>1, FaultTyped DEF Lose, RestTyped
  <2>2. CASE Tick \/ checkDeadLetters
    BY <1>2, <2>2, FrameRest DEF Tick, checkDeadLetters
  <2>3. CASE checkContinuity
    BY <1>1, <1>2, <2>3 DEF checkContinuity, RestTyped
  <2> QED BY <2>1, <2>2, <2>3
<1> QED BY <1>1, <1>3, <1>4, Still, BaseNext

\* pollOnce stores an operation that has no row yet.
LEMMA PollIs ==
    ASSUME OpsTyped, InboxTyped, NEW m \in queue, pollOnce(m)
    PROVE  /\ InboxTyped' /\ Ids \subseteq Ids'
           /\ \A i \in Ids : inbox'[i] = inbox[i] /\ Kind(i)' = Kind(i) /\ Time(i)' = Time(i)
           /\ \/ Stored(m) /\ inbox' = inbox
              \/ /\ ~Stored(m) /\ Ids' = Ids \cup {Len(inbox) + 1} /\ Len(inbox) + 1 \notin Ids
                 /\ inbox'[Len(inbox) + 1] = [op |-> m, state |-> "pending", origin |-> "unknown",
                                              attempts |-> 0, due |-> TRUE]
<1> DEFINE e == [op |-> m, state |-> "pending", origin |-> "unknown", attempts |-> 0, due |-> TRUE]
<1>1. ops' = ops /\ EventType' = EventType /\ e \in EventType /\ e.op = m
  BY DEF pollOnce, provider, EventType, States, OpsTyped
<1>2. /\ Len(inbox) \in Nat /\ Ids = 1..Len(inbox) /\ inbox \in Seq(EventType)
      /\ \A i, j \in Ids : i # j => inbox[i].op # inbox[j].op
  BY InboxFacts DEF InboxTyped
<1>3. CASE Stored(m)
  <2>1. inbox' = inbox
    BY <1>3 DEF pollOnce
  <2> QED BY <1>1, <1>3, <2>1, FrameInbox
<1>4. CASE ~Stored(m)
  <2>1. inbox' = Append(inbox, e)
    BY <1>4 DEF pollOnce
  <2> HIDE DEF e
  <2>2. /\ inbox' \in Seq(EventType) /\ Len(inbox') = Len(inbox) + 1
        /\ \A i \in 1..Len(inbox) : inbox'[i] = inbox[i]
        /\ inbox'[Len(inbox) + 1] = e
    BY <1>1, <1>2, <2>1, AppendIs, SMTT(60)
  <2>3. Ids' = 1..Len(inbox) + 1
    BY <2>2, LenIs DEF Ids
  <2>4. Ids' = Ids \cup {Len(inbox) + 1} /\ Len(inbox) + 1 \notin Ids
    BY <1>2, <2>3, SMTT(60)
  <2>5. \A i \in Ids : inbox[i].op # m
    BY <1>4 DEF Stored
  <2>6. ASSUME NEW i \in Ids', NEW j \in Ids', i # j
        PROVE  inbox'[i].op # inbox'[j].op
    BY <1>1, <1>2, <2>2, <2>4, <2>5, <2>6
  <2>7. InboxTyped'
    BY <1>1, <2>2, <2>6 DEF InboxTyped
  <2>8. \A i \in Ids : Kind(i)' = Kind(i) /\ Time(i)' = Time(i)
    BY <1>1, <1>2, <2>2 DEF Kind, Time
  <2> QED BY <1>2, <1>4, <2>2, <2>4, <2>7, <2>8 DEF e
<1> QED BY <1>3, <1>4

\* A message is stored.
LEMMA BasePoll ==
    ASSUME Base, NEW m \in Ops, pollOnce(m) PROVE Base'
<1>1. /\ OpsTyped /\ InboxTyped /\ IntentsTyped /\ IndexTyped /\ WorkTyped
      /\ RestTyped /\ RowsInHand /\ WritesNoted /\ IndexKnown
  BY BaseParts
<1>2. /\ m \in queue /\ queue' \subseteq queue
      /\ UNCHANGED <<sequenced, ops, clock, dead, broken, intents, index, lease, apply, pass,
                     baseline, owed, resolving, sub>>
  BY DEF pollOnce, provider
<1>3. /\ InboxTyped' /\ Ids \subseteq Ids'
      /\ \A i \in Ids : inbox'[i] = inbox[i] /\ Kind(i)' = Kind(i)
  BY <1>1, <1>2, PollIs
<1>4. OpsTyped'
  BY <1>1, <1>2 DEF OpsTyped, OpType
<1>5. IntentsTyped' /\ IndexTyped'
  BY <1>1, <1>2, FrameIntents, FrameIndex
<1>6. WorkTyped'
  BY <1>1, <1>2, <1>3 DEF WorkTyped, ApplyType, PassType, ResolvingType
<1>7. RestTyped'
  <2>1. faults' \in 0..MaxFaults
    BY <1>1, FaultTyped DEF pollOnce, RestTyped
  <2> QED BY <1>1, <1>2, <2>1 DEF RestTyped
<1>8. RowsInHand'
  BY <1>1, <1>2, <1>3, FrameHand
<1>9. WritesNoted' /\ IndexKnown'
  BY <1>1, <1>2, <1>3, FrameNoted, FrameKnown
<1> QED BY <1>3, <1>4, <1>5, <1>6, <1>7, <1>8, <1>9, BaseNext

\* A row comes due again.
LEMMA BaseRetry ==
    ASSUME Base, NEW i \in Ops, retryDue(i) PROVE Base'
<1>1. /\ OpsTyped /\ InboxTyped /\ IntentsTyped /\ IndexTyped /\ WorkTyped
      /\ RestTyped /\ RowsInHand /\ WritesNoted /\ IndexKnown
  BY BaseParts
<1>2. /\ i \in Ids /\ inbox' = [inbox EXCEPT ![i].due = TRUE]
      /\ UNCHANGED <<sequenced, ops, clock, queue, dead, broken, intents, index, lease,
                     apply, pass, baseline, owed, faults, resolving, sub>>
  BY DEF retryDue, provider, stream
<1>3. /\ inbox' \in [Ids -> EventType]
      /\ \A j \in Ids : inbox'[j].op = inbox[j].op /\ inbox'[j].state = inbox[j].state
  BY <1>1, <1>2, InboxFacts DEF EventType
<1>4. InboxTyped' /\ Ids' = Ids /\ \A j \in Ids : Kind(j)' = Kind(j)
  BY <1>1, <1>2, <1>3, Rewritten
<1>5. OpsTyped' /\ IntentsTyped' /\ IndexTyped' /\ RestTyped'
  BY <1>1, <1>2, FrameOps, FrameIntents, FrameIndex, FrameRest
<1>6. WorkTyped'
  BY <1>1, <1>2, <1>4, FrameWork
<1>7. RowsInHand'
  BY <1>1, <1>2, <1>3, <1>4, FrameHand
<1>8. WritesNoted' /\ IndexKnown'
  BY <1>1, <1>2, <1>4, FrameNoted, FrameKnown
<1> QED BY <1>4, <1>5, <1>6, <1>7, <1>8, BaseNext

\* An intent expires.
LEMMA BaseExpire ==
    ASSUME Base, NEW k \in Ops, expireIntent(k) PROVE Base'
<1>1. /\ OpsTyped /\ InboxTyped /\ IntentsTyped /\ IndexTyped /\ WorkTyped
      /\ RestTyped /\ RowsInHand /\ WritesNoted /\ IndexKnown
  BY BaseParts
<1>2. /\ k \in DOMAIN intents /\ intents' = Without(intents, k) /\ Fault
      /\ intents[k].by # "pass"
      /\ UNCHANGED <<sequenced, ops, clock, queue, dead, broken, inbox, index, lease,
                     apply, pass, baseline, owed, resolving, sub>>
  BY DEF expireIntent, provider, stream
<1>3. IntentsTyped' /\ WritesNoted'
  BY <1>1, <1>2, Taken
<1>4. InboxTyped' /\ Ids' = Ids /\ \A j \in Ids : Kind(j)' = Kind(j)
  BY <1>1, <1>2, FrameInbox
<1>5. OpsTyped' /\ IndexTyped'
  BY <1>1, <1>2, FrameOps, FrameIndex
<1>6. WorkTyped'
  BY <1>1, <1>2, <1>4, FrameWork
<1>7. RestTyped'
  BY <1>1, <1>2, FaultTyped DEF RestTyped
<1>8. RowsInHand' /\ IndexKnown'
  BY <1>1, <1>2, <1>4, FrameHand, FrameKnown
<1> QED BY <1>3, <1>4, <1>5, <1>6, <1>7, <1>8, BaseNext

MayTake == intents' = intents \/ \E k \in DOMAIN intents : intents' = Without(intents, k)

\* A step of the applier under its lease.
LEMMA ApplierBase ==
    ASSUME Base, apply.pc \in {"confirm", "settle", "mark", "release"},
           UNCHANGED <<sequenced, ops, clock, queue, dead, broken, lease, pass, baseline,
                       resolving, sub>>,
           inbox' \in [Ids -> EventType],
           \A i \in Ids : inbox'[i].op = inbox[i].op,
           MayTake, IndexTyped', owed' \in BOOLEAN, faults' \in 0..MaxFaults,
           apply' \in ApplyType,
           apply'.pc \in {"confirm", "settle", "mark", "release"},
           RowsInHand', IndexKnown'
    PROVE  Base'
<1>1. OpsTyped /\ InboxTyped /\ IntentsTyped /\ WorkTyped /\ RestTyped /\ WritesNoted
  BY BaseParts
<1>2. lease = "applier" /\ pass.pc = "off"
  BY ApplierAlone
<1>3. InboxTyped' /\ Ids' = Ids
  BY <1>1, Rewritten
<1>4. OpsTyped'
  BY <1>1, FrameOps
<1>5. WorkTyped'
  BY <1>1, <1>2, <1>3 DEF WorkTyped, ApplyType, PassType, ResolvingType
<1>6. RestTyped'
  BY <1>1 DEF RestTyped
<1>7. IntentsTyped' /\ WritesNoted'
  <2>1. CASE intents' = intents
    BY <1>1, <2>1, FrameIntents, FrameNoted
  <2>2. ASSUME NEW k \in DOMAIN intents, intents' = Without(intents, k)
        PROVE  IntentsTyped' /\ WritesNoted'
    <3>1. intents[k].by # "pass"
      BY <1>1, <1>2 DEF WritesNoted, Held
    <3> QED BY <1>1, <2>2, <3>1, Taken
  <2> QED BY <2>1, <2>2 DEF MayTake
<1> QED BY <1>3, <1>4, <1>5, <1>6, <1>7, BaseNext

\* Its hands are empty, or hold what is left of a batch.
LEMMA HandIs ==
    ASSUME Base, apply.pc \in {"confirm", "settle", "mark", "release"}, UNCHANGED <<ops, pass>>,
           NEW rows \in SUBSET Ids, NEW latest, NEW pc,
           apply' = [pc |-> pc, rows |-> rows, latest |-> latest],
           \A i \in Ids : inbox'[i].op = inbox[i].op,
           \A i \in rows : inbox'[i].state = "pending",
           \/ pc = "settle" /\ latest \in rows
           \/ pc = "release" /\ latest = None
    PROVE  /\ apply' \in ApplyType /\ apply'.pc \in {"confirm", "settle", "mark", "release"}
           /\ RowsInHand'
<1>1. pass.rows = {} /\ pass.pc = "off"
  BY ApplierAlone
<1>2. apply' \in ApplyType /\ apply'.pc \in {"settle", "release"}
  BY DEF ApplyType
<1>3. apply'.rows = rows /\ apply'.latest = latest /\ apply'.pc = pc
  OBVIOUS
<1>4. RowsInHand'
  BY <1>1, <1>3 DEF RowsInHand
<1> QED BY <1>2, <1>4

\* The applier is done with its batch.
LEMMA ReadyIs ==
    ASSUME Base, apply.pc \in {"confirm", "settle", "mark", "release"}, UNCHANGED <<ops, pass>>,
           Ready, \A i \in Ids : inbox'[i].op = inbox[i].op
    PROVE  /\ apply' \in ApplyType /\ apply'.pc = "release" /\ RowsInHand'
<1>1. apply' = [pc |-> "release", rows |-> {}, latest |-> None]
  BY DEF Ready, Become
<1> QED BY <1>1, HandIs, SMTT(60)

\* settleOwnWrite takes one intent and ends one row.
LEMMA OwnWriteIs ==
    ASSUME InboxTyped, IntentsTyped, NEW i \in Ids, settleOwnWrite(i)
    PROVE  /\ inbox' \in [Ids -> EventType]
           /\ \A j \in Ids : /\ inbox'[j].op = inbox[j].op
                             /\ inbox'[j].state = IF j = i THEN "skipped" ELSE inbox[j].state
                             /\ inbox'[j].origin = IF j = i THEN "self" ELSE inbox[j].origin
           /\ \E k \in DOMAIN intents : intents' = Without(intents, k) /\ Matches(intents[k], i)
<1>1. /\ Matching(intents, i) # {}
      /\ intents' = Without(intents, Oldest(Matching(intents, i)))
      /\ inbox' = Skipped(inbox, {i}, "self")
  BY DEF settleOwnWrite
<1>2. /\ Matching(intents, i) \in SUBSET DOMAIN intents
      /\ \A k \in Matching(intents, i) : Matches(intents[k], i)
  BY DEF Matching
<1>3. Oldest(Matching(intents, i)) \in Matching(intents, i)
  BY <1>1, <1>2, OldestIs
<1>4. /\ inbox' \in [Ids -> EventType]
      /\ \A j \in Ids : /\ inbox'[j].op = inbox[j].op
                        /\ inbox'[j].state = IF j = i THEN "skipped" ELSE inbox[j].state
                        /\ inbox'[j].origin = IF j = i THEN "self" ELSE inbox[j].origin
  BY <1>1, SkippedIs, SMTT(60)
<1> QED BY <1>1, <1>2, <1>3, <1>4

\* The event of a delete of our own.
LEMMA BaseOwnRemoval ==
    ASSUME Base, OwnRemoval PROVE Base'
<1>1. /\ InboxTyped /\ IntentsTyped /\ IndexTyped /\ WorkTyped
      /\ RestTyped /\ RowsInHand /\ IndexKnown
  BY BaseParts
<1>2. /\ apply.pc = "confirm" /\ settleOwnWrite(apply.latest)
      /\ apply' = [pc |-> "release", rows |-> apply.rows \ {apply.latest}, latest |-> None]
      /\ UNCHANGED <<sequenced, ops, clock, queue, dead, broken, index, lease, pass, baseline,
                     owed, faults, resolving, sub>>
  BY DEF OwnRemoval, Become, provider, stream
<1>3. /\ apply.rows \subseteq Ids /\ apply.latest \in Ids
      /\ \A i \in apply.rows : inbox[i].state = "pending"
  BY <1>1, <1>2 DEF WorkTyped, ApplyType, RowsInHand
<1>4. /\ inbox' \in [Ids -> EventType] /\ MayTake
      /\ \A j \in Ids : /\ inbox'[j].op = inbox[j].op
                        /\ inbox'[j].state = IF j = apply.latest THEN "skipped" ELSE inbox[j].state
  BY <1>1, <1>2, <1>3, OwnWriteIs DEF MayTake
<1>5. \A i \in apply.rows \ {apply.latest} : inbox'[i].state = "pending"
  BY <1>3, <1>4
<1>6. /\ apply' \in ApplyType /\ apply'.pc \in {"confirm", "settle", "mark", "release"}
      /\ RowsInHand'
  BY <1>2, <1>3, <1>4, <1>5, HandIs
<1>7. IndexTyped'
  BY <1>1, <1>2, FrameIndex
<1>8. IndexKnown'
  BY <1>1, <1>2 DEF IndexKnown, Indexed, IndexedObject
<1>9. owed' \in BOOLEAN /\ faults' \in 0..MaxFaults
  BY <1>1, <1>2 DEF RestTyped
<1> QED BY <1>2, <1>4, <1>6, <1>7, <1>8, <1>9, ApplierBase

\* An older event of the batch.
LEMMA BaseSupersede ==
    ASSUME Base, Supersede PROVE Base'
<1>1. /\ OpsTyped /\ InboxTyped /\ IntentsTyped /\ IndexTyped /\ WorkTyped
      /\ RestTyped /\ RowsInHand /\ IndexKnown
  BY BaseParts
<1> DEFINE i == First(Older)
<1>2. /\ apply.pc \in {"settle", "release"} /\ Older # {}
      /\ \/ settleOwnWrite(i)
         \/ inbox' = Skipped(inbox, {i}, "external") /\ intents' = intents
      /\ apply' = [apply EXCEPT !.rows = @ \ {i}]
      /\ UNCHANGED <<sequenced, ops, clock, queue, dead, broken, index, lease, pass, baseline,
                     owed, faults, resolving, sub>>
  BY DEF Supersede, provider, stream
<1>3. /\ apply \in ApplyType /\ apply.rows \subseteq Ids
      /\ \A j \in apply.rows : inbox[j].state = "pending"
      /\ apply.pc = "settle" => apply.latest \in apply.rows
      /\ apply.pc = "release" => apply.latest = None
  BY <1>1 DEF WorkTyped, ApplyType, RowsInHand
<1>4. i \in Older /\ i \in apply.rows /\ i # apply.latest
  BY <1>1, <1>2, <1>3, FirstIs, SMTT(60) DEF Older
<1> HIDE DEF i
<1>5. /\ inbox' \in [Ids -> EventType] /\ MayTake
      /\ \A j \in Ids : /\ inbox'[j].op = inbox[j].op
                        /\ inbox'[j].state = IF j = i THEN "skipped" ELSE inbox[j].state
  <2>1. CASE settleOwnWrite(i)
    BY <1>1, <1>3, <1>4, <2>1, OwnWriteIs DEF MayTake
  <2>2. CASE inbox' = Skipped(inbox, {i}, "external") /\ intents' = intents
    BY <1>1, <2>2, SkippedIs, SMTT(60) DEF MayTake
  <2> QED BY <1>2, <2>1, <2>2
<1>6. apply' = [pc |-> apply.pc, rows |-> apply.rows \ {i}, latest |-> apply.latest]
  BY <1>2, <1>3 DEF ApplyType
<1>7. \A j \in apply.rows \ {i} : inbox'[j].state = "pending"
  BY <1>3, <1>5
<1>8. /\ apply' \in ApplyType /\ apply'.pc \in {"confirm", "settle", "mark", "release"}
      /\ RowsInHand'
  <2>1. apply.rows \ {i} \in SUBSET Ids
    BY <1>3
  <2>2. \/ apply.pc = "settle" /\ apply.latest \in apply.rows \ {i}
        \/ apply.pc = "release" /\ apply.latest = None
    BY <1>2, <1>3, <1>4
  <2> QED BY <1>2, <1>5, <1>6, <1>7, <2>1, <2>2, HandIs
<1>9. InboxTyped' /\ \A j \in Ids : Kind(j)' = Kind(j)
  BY <1>1, <1>2, <1>5, Rewritten
<1>10. IndexTyped'
  BY <1>1, <1>2, FrameIndex
<1>11. IndexKnown'
  <2>1. UNCHANGED <<Indexed, IndexedObject, Object>>
    BY <1>2 DEF Indexed, IndexedObject, NoRow, Row, Object, None
  <2>2. apply'.pc = apply.pc /\ apply'.latest = apply.latest
    BY <1>6
  <2>3. apply.pc = "settle" => apply.latest \in Ids
    BY <1>3
  <2> QED BY <1>1, <1>9, <2>1, <2>2, <2>3 DEF IndexKnown
<1>12. owed' \in BOOLEAN /\ faults' \in 0..MaxFaults
  BY <1>1, <1>2 DEF RestTyped
<1> QED BY <1>2, <1>5, <1>8, <1>10, <1>11, <1>12, ApplierBase

\* The HEAD before a removal is believed.
LEMMA BaseHead ==
    ASSUME Base, HeadFails \/ HeadGone \/ HeadFinds PROVE Base'
<1>1. /\ OpsTyped /\ InboxTyped /\ IntentsTyped /\ IndexTyped /\ WorkTyped
      /\ RestTyped /\ RowsInHand /\ IndexKnown
  BY BaseParts
<1>2. /\ apply.pc = "confirm"
      /\ UNCHANGED <<sequenced, ops, clock, queue, dead, broken, intents, lease, pass, baseline,
                     resolving, sub>>
  BY DEF HeadFails, HeadGone, HeadFinds, Unclaimed, provider, stream
<1>3. /\ apply \in ApplyType /\ apply.rows \subseteq Ids /\ apply.latest \in apply.rows
      /\ \A j \in apply.rows : inbox[j].state = "pending"
      /\ Kind(apply.latest) = "Removed"
  BY <1>1, <1>2 DEF WorkTyped, ApplyType, RowsInHand
<1>4. MayTake
  BY <1>2 DEF MayTake
<1>5. Indexed => IndexedObject # None
  BY <1>1 DEF IndexKnown
<1>6. owed \in BOOLEAN /\ faults \in 0..MaxFaults
  BY <1>1 DEF RestTyped
<1>7. Object' = Object
  BY <1>2 DEF Object
<1>8. CASE HeadFails
  <2>1. inbox' = Delayed(inbox, {apply.latest}) /\ Ready /\ Fault /\ UNCHANGED <<index, owed>>
    BY <1>8 DEF HeadFails
  <2>2. inbox' \in [Ids -> EventType] /\ \A j \in Ids : inbox'[j].op = inbox[j].op
    BY <1>1, <2>1, DelayedIs
  <2>3. apply' \in ApplyType /\ apply'.pc = "release" /\ RowsInHand'
    BY <1>2, <2>1, <2>2, ReadyIs
  <2>4. IndexTyped' /\ faults' \in 0..MaxFaults
    BY <1>1, <1>2, <2>1, FrameIndex, FaultTyped
  <2>5. IndexKnown'
    BY <1>5, <2>1, <2>3 DEF IndexKnown, Indexed, IndexedObject
  <2> QED BY <1>2, <1>4, <1>6, <2>1, <2>2, <2>3, <2>4, <2>5, ApplierBase
<1>9. CASE HeadGone
  <2>1. /\ Object = None /\ UNCHANGED <<inbox, index, owed, faults>>
        /\ apply' = [pc |-> "settle", rows |-> apply.rows, latest |-> apply.latest]
    BY <1>9 DEF HeadGone, Become
  <2>2. inbox' \in [Ids -> EventType] /\ \A j \in Ids : inbox'[j].op = inbox[j].op
    BY <1>1, <2>1, InboxFacts
  <2>3. apply' \in ApplyType /\ apply'.pc \in {"confirm", "settle", "mark", "release"} /\ RowsInHand'
    BY <1>2, <1>3, <2>1, <2>2, HandIs
  <2>4. IndexTyped'
    BY <1>1, <1>2, <2>1, FrameIndex
  <2>5. IndexKnown'
    BY <1>5, <1>7, <2>1 DEF IndexKnown, Indexed, IndexedObject
  <2> QED BY <1>2, <1>4, <1>6, <2>1, <2>2, <2>3, <2>4, <2>5, ApplierBase
<1>10. CASE HeadFinds
  <2> DEFINE creates == {i \in apply.rows : Kind(i) = "Created"}
  <2>1. Object # None /\ faults' = faults
    BY <1>10 DEF HeadFinds
  <2>2. CASE creates # {}
    <3>1. /\ apply' = [pc |-> "settle", rows |-> apply.rows \ {apply.latest},
                       latest |-> Newest(creates)]
          /\ inbox' = Skipped(inbox, {apply.latest}, "external")
          /\ UNCHANGED <<index, owed>>
      BY <1>10, <2>2 DEF HeadFinds, Become
    <3>2. Newest(creates) \in creates
      <4>1. creates \in SUBSET Ids
        BY <1>3
      <4> HIDE DEF creates
      <4> QED BY <1>1, <2>2, <4>1, NewestIs
    <3>3. Newest(creates) \in apply.rows \ {apply.latest} /\ Kind(Newest(creates)) = "Created"
      BY <1>3, <3>2
    <3> HIDE DEF creates
    <3>4. /\ inbox' \in [Ids -> EventType]
          /\ \A j \in Ids : /\ inbox'[j].op = inbox[j].op
                            /\ inbox'[j].state = IF j = apply.latest THEN "skipped" ELSE inbox[j].state
      <4> DEFINE last == {apply.latest}
      <4>1. \A j : j \in last <=> j = apply.latest
        OBVIOUS
      <4>2. inbox' = Skipped(inbox, last, "external")
        BY <3>1
      <4> HIDE DEF last
      <4>3. /\ Skipped(inbox, last, "external") \in [Ids -> EventType]
            /\ \A j \in Ids :
                  /\ Skipped(inbox, last, "external")[j].op = inbox[j].op
                  /\ Skipped(inbox, last, "external")[j].state
                        = IF j \in last THEN "skipped" ELSE inbox[j].state
        BY <1>1, SkippedIs, SMTT(60)
      <4> QED BY <4>1, <4>2, <4>3
    <3>5. \A j \in apply.rows \ {apply.latest} : inbox'[j].state = "pending"
      BY <1>3, <3>4
    <3>6. apply.rows \ {apply.latest} \in SUBSET Ids
      BY <1>3
    <3>7. apply' \in ApplyType /\ apply'.pc \in {"confirm", "settle", "mark", "release"} /\ RowsInHand'
      BY <1>2, <3>1, <3>3, <3>4, <3>5, <3>6, HandIs
    <3>8. IndexTyped'
      BY <1>1, <1>2, <3>1, FrameIndex
    <3>9. (apply'.pc = "settle" => Kind(apply.latest)' = "Created")
      BY <1>2, <3>1, <3>3, <3>4, <3>6 DEF Kind
    <3>10. IndexKnown'
      BY <1>5, <3>1, <3>9 DEF IndexKnown, Indexed, IndexedObject
    <3> QED BY <1>2, <1>4, <1>6, <2>1, <3>1, <3>4, <3>7, <3>8, <3>10, ApplierBase
  <2>3. CASE creates = {}
    <3>1. /\ Ready /\ inbox' = Skipped(inbox, apply.rows, "external")
          /\ \/ UNCHANGED <<index, owed>>
             \/ index' = Row(Object, index.seq, Object) /\ owed' = TRUE
      BY <1>10, <2>3 DEF HeadFinds
    <3>2. inbox' \in [Ids -> EventType] /\ \A j \in Ids : inbox'[j].op = inbox[j].op
      BY <1>1, <3>1, SkippedIs, SMTT(60)
    <3>3. apply' \in ApplyType /\ apply'.pc = "release" /\ RowsInHand'
      BY <1>2, <3>1, <3>2, ReadyIs
    <3>4. owed' \in BOOLEAN
      BY <1>6, <3>1
    <3>5. IndexTyped'
      BY <1>1, <1>2, <3>1, ObjectIs, SMTT(60) DEF IndexTyped, Row
    <3>6. (Indexed => IndexedObject # None)'
      BY <1>5, <1>7, <2>1, <3>1, SMTT(60) DEF Indexed, IndexedObject, Row
    <3>7. IndexKnown'
      BY <3>3, <3>6 DEF IndexKnown
    <3> QED BY <1>2, <1>4, <1>6, <2>1, <3>2, <3>3, <3>4, <3>5, <3>7, ApplierBase
  <2> QED BY <2>2, <2>3
<1> QED BY <1>8, <1>9, <1>10

\* The newest event of the batch.
LEMMA BaseSettle ==
    ASSUME Base, Settle PROVE Base'
<1>1. /\ OpsTyped /\ InboxTyped /\ IntentsTyped /\ IndexTyped /\ WorkTyped
      /\ RestTyped /\ RowsInHand /\ IndexKnown
  BY BaseParts
<1> DEFINE i == apply.latest
           n == inbox[i].op
<1>2. /\ apply.pc = "settle" /\ Older = {}
      /\ UNCHANGED <<sequenced, ops, clock, queue, dead, broken, lease, pass, baseline, faults,
                     resolving, sub>>
  BY DEF Settle, provider, stream
<1>3. /\ apply \in ApplyType /\ i \in Ids /\ inbox[i].state = "pending"
  BY <1>1, <1>2 DEF WorkTyped, ApplyType, RowsInHand
<1>4. n \in 1..Len(ops) /\ Len(ops) \in Nat /\ n # None
  BY <1>1, <1>3, RowNumbers, OpsFacts, SMTT(60) DEF None
<1>5. Indexed => IndexedObject # None
  BY <1>1 DEF IndexKnown
<1>6. owed \in BOOLEAN /\ faults' \in 0..MaxFaults
  BY <1>1, <1>2 DEF RestTyped
<1>7. /\ index \in [etag : 0..Len(ops), seq : 0..Len(ops), desc : 0..Len(ops)]
      /\ Sequencer(i) \in 0..Len(ops)
  <2>1. index \in [etag : 0..Len(ops), seq : 0..Len(ops), desc : 0..Len(ops)]
    BY <1>1 DEF IndexTyped
  <2>2. n \in 0..Len(ops) /\ index.seq \in 0..Len(ops) /\ Sequencer(i) \in {n, index.seq}
    BY <1>4, <2>1, SMTT(60) DEF Sequencer
  <2> QED BY <2>1, <2>2
<1>8. \/ \E o \in {"unknown", "external"} : Drop(i, o)
      \/ \E r \in {NoRow, Row(n, Sequencer(i), None)} : Write(i, r)
      \/ /\ settleOwnWrite(i) /\ Ready /\ owed' = owed
         /\ index' = IF Indexed THEN Row(n, Sequencer(i), index.desc) ELSE index
  BY DEF Settle
<1> HIDE DEF i, n
<1>9. CASE \E o \in {"unknown", "external"} : Drop(i, o)
  <2>1. PICK o \in {"unknown", "external"} : Drop(i, o)
    BY <1>9
  <2>2. inbox' = Skipped(inbox, {i}, o) /\ Ready /\ UNCHANGED <<intents, index, owed>>
    BY <2>1 DEF Drop
  <2>3. inbox' \in [Ids -> EventType] /\ \A j \in Ids : inbox'[j].op = inbox[j].op
    BY <1>1, <2>2, SkippedIs, SMTT(60)
  <2>4. apply' \in ApplyType /\ apply'.pc = "release" /\ RowsInHand'
    BY <1>2, <2>2, <2>3, ReadyIs
  <2>5. MayTake /\ IndexTyped'
    BY <1>1, <1>2, <2>2, FrameIndex DEF MayTake
  <2>6. IndexKnown'
    BY <1>5, <2>2, <2>4 DEF IndexKnown, Indexed, IndexedObject
  <2> QED BY <1>2, <1>6, <2>2, <2>3, <2>4, <2>5, <2>6, ApplierBase
<1>10. CASE \E r \in {NoRow, Row(n, Sequencer(i), None)} : Write(i, r)
  <2>1. PICK r \in {NoRow, Row(n, Sequencer(i), None)} : Write(i, r)
    BY <1>10
  <2>2. /\ index' = r /\ owed' = TRUE /\ UNCHANGED <<inbox, intents>>
        /\ apply' = [pc |-> "mark", rows |-> {}, latest |-> i]
    BY <2>1 DEF Write, Become
  <2>3. inbox' \in [Ids -> EventType] /\ \A j \in Ids : inbox'[j].op = inbox[j].op
    BY <1>1, <2>2, InboxFacts
  <2>4. apply' \in ApplyType /\ apply'.pc = "mark"
    BY <1>3, <2>2 DEF ApplyType
  <2>5. RowsInHand'
    <3>1. pass.rows = {} /\ Ids' = Ids
      BY <1>2, <2>2, ApplierAlone DEF Ids
    <3> QED BY <1>2, <1>3, <2>2, <3>1 DEF RowsInHand
  <2>6. MayTake /\ owed' \in BOOLEAN
    <3>1. owed' \in BOOLEAN
      BY <2>2
    <3> QED BY <2>2, <3>1 DEF MayTake
  <2>7. IndexTyped'
    BY <1>2, <1>4, <1>7, <2>2, SMTT(60) DEF IndexTyped, Row, NoRow, None
  <2>8. IndexKnown'
    BY <1>4, <2>2, SMTT(60) DEF IndexKnown, Indexed, IndexedObject, Row, NoRow, None
  <2> QED BY <1>2, <1>6, <2>2, <2>3, <2>4, <2>5, <2>6, <2>7, <2>8, ApplierBase
<1>11. CASE /\ settleOwnWrite(i) /\ Ready /\ owed' = owed
            /\ index' = IF Indexed THEN Row(n, Sequencer(i), index.desc) ELSE index
  <2>1. inbox' \in [Ids -> EventType] /\ MayTake /\ \A j \in Ids : inbox'[j].op = inbox[j].op
    BY <1>1, <1>3, <1>11, OwnWriteIs DEF MayTake
  <2>2. apply' \in ApplyType /\ apply'.pc = "release" /\ RowsInHand'
    BY <1>2, <1>11, <2>1, ReadyIs
  <2>3. IndexTyped'
    BY <1>2, <1>4, <1>7, <1>11, SMTT(60) DEF IndexTyped, Row
  <2>4. IndexKnown'
    BY <1>4, <1>5, <1>11, <2>2 DEF IndexKnown, Indexed, IndexedObject, Row
  <2> QED BY <1>2, <1>6, <1>11, <2>1, <2>2, <2>3, <2>4, ApplierBase
<1> QED BY <1>8, <1>9, <1>10, <1>11

\* Its row is marked.
LEMMA BaseMark ==
    ASSUME Base, markApplied PROVE Base'
<1>1. InboxTyped /\ IntentsTyped /\ IndexTyped /\ WorkTyped /\ RestTyped /\ RowsInHand /\ IndexKnown
  BY BaseParts
<1>2. /\ apply.pc = "mark" /\ Ready
      /\ inbox' = [inbox EXCEPT ![apply.latest].state = "applied",
                                ![apply.latest].origin = "external"]
      /\ UNCHANGED <<sequenced, ops, clock, queue, dead, broken, intents, index, lease, pass,
                     baseline, owed, faults, resolving, sub>>
  BY DEF markApplied, provider, stream
<1>3. apply.latest \in Ids
  BY <1>1, <1>2 DEF RowsInHand
<1>4. inbox' \in [Ids -> EventType] /\ \A j \in Ids : inbox'[j].op = inbox[j].op
  BY <1>1, <1>2, <1>3, InboxFacts, SMTT(60) DEF EventType, States
<1>5. apply' \in ApplyType /\ apply'.pc = "release" /\ RowsInHand'
  BY <1>2, <1>4, ReadyIs
<1>6. MayTake /\ IndexTyped' /\ owed' \in BOOLEAN /\ faults' \in 0..MaxFaults
  BY <1>1, <1>2, FrameIndex DEF RestTyped, MayTake
<1>7. IndexKnown'
  BY <1>1, <1>2, <1>5 DEF IndexKnown, Indexed, IndexedObject
<1> QED BY <1>2, <1>4, <1>5, <1>6, <1>7, ApplierBase

\* A step that moves the lease and leaves the stream and the tables alone.
LEMMA LeaseBase ==
    ASSUME Base, UNCHANGED <<sequenced, ops, clock, queue, dead, broken, inbox, index, baseline,
                             owed>>,
           sub' \in 0..MaxClock, faults' \in 0..MaxFaults,
           IntentsTyped', WorkTyped', RowsInHand', WritesNoted', IndexKnown'
    PROVE  Base'
<1>1. OpsTyped /\ InboxTyped /\ IndexTyped /\ RestTyped
  BY BaseParts
<1>2. OpsTyped' /\ InboxTyped' /\ IndexTyped'
  BY <1>1, FrameOps, FrameInbox, FrameIndex
<1>3. RestTyped'
  BY <1>1 DEF RestTyped
<1> QED BY <1>2, <1>3, BaseNext

\* A batch is read.
LEMMA BaseClaim ==
    ASSUME Base, claimForVault PROVE Base'
<1>1. /\ OpsTyped /\ InboxTyped /\ IntentsTyped /\ WorkTyped
      /\ RestTyped /\ RowsInHand /\ WritesNoted /\ IndexKnown
  BY BaseParts
<1> DEFINE rows == Due("pending")
<1>2. /\ apply.pc = "idle" /\ lease = "free" /\ lease' = "applier"
      /\ IF rows = {} THEN apply' = [pc |-> "release", rows |-> {}, latest |-> None]
         ELSE apply' = [pc |-> IF Kind(Newest(rows)) = "Removed" THEN "confirm" ELSE "settle",
                        rows |-> rows, latest |-> Newest(rows)]
      /\ UNCHANGED <<sequenced, ops, clock, queue, dead, broken, inbox, intents, index, pass,
                     baseline, owed, faults, resolving>>
  BY DEF claimForVault, Ready, Become, provider, stream
<1>3. rows \in SUBSET Ids /\ \A j \in rows : inbox[j].state = "pending"
  BY DEF Due
<1> HIDE DEF rows
<1>4. rows # {} => Newest(rows) \in rows
  BY <1>1, <1>3, NewestIs
<1>5. Ids' = Ids /\ \A j \in Ids : Kind(j)' = Kind(j)
  BY <1>1, <1>2, FrameInbox
<1>6. pass.pc = "off" /\ pass.rows = {}
  BY <1>1, <1>2 DEF WorkTyped, PassType, RowsInHand
<1>7. /\ apply' \in ApplyType /\ apply'.rows \subseteq rows
      /\ apply'.pc \in {"confirm", "settle", "release"}
      /\ apply'.pc \in {"confirm", "settle"} => apply'.latest \in apply'.rows
      /\ apply'.pc = "confirm" => Kind(apply'.latest) = "Removed"
      /\ apply'.pc = "settle" => Kind(apply'.latest) # "Removed"
      /\ apply'.pc = "release" => apply'.latest = None
  <2>1. CASE rows = {}
    BY <1>2, <2>1, SMTT(60) DEF ApplyType
  <2>2. CASE rows # {}
    BY <1>2, <1>3, <1>4, <2>2, SMTT(60) DEF ApplyType
  <2> QED BY <2>1, <2>2
<1>8. WorkTyped'
  BY <1>1, <1>2, <1>5, <1>6, <1>7 DEF WorkTyped, ApplyType, PassType, ResolvingType
<1>9. apply'.pc \in {"confirm", "settle"} => apply'.latest \in Ids
  BY <1>3, <1>7
<1>10. RowsInHand'
  BY <1>2, <1>3, <1>5, <1>6, <1>7, <1>9 DEF RowsInHand, Kind
<1>11. WritesNoted'
  BY <1>1, <1>2, FrameNoted
<1>12. (apply.pc = "settle" => Kind(apply.latest) # "Removed")'
  BY <1>2, <1>7 DEF Kind
<1>13. IndexKnown'
  BY <1>1, <1>2, <1>12 DEF IndexKnown, Indexed, IndexedObject
<1>14. IntentsTyped' /\ faults' \in 0..MaxFaults
  BY <1>1, <1>2, FrameIntents DEF RestTyped
<1>15. sub' \in 0..MaxClock
  <2>1. sub' \in 0..baseline.at \/ sub' = baseline.at
    BY DEF claimForVault
  <2>2. baseline.at \in 0..MaxClock
    BY <1>1 DEF RestTyped
  <2> QED BY <2>1, <2>2, Bounds, SMTT(60)
<1> QED BY <1>2, <1>8, <1>10, <1>11, <1>13, <1>14, <1>15, LeaseBase

\* The applier releases the lease.
LEMMA BaseRelease ==
    ASSUME Base, releasePass PROVE Base'
<1>1. IntentsTyped /\ WorkTyped /\ RestTyped /\ RowsInHand /\ WritesNoted /\ IndexKnown
  BY BaseParts
<1>2. /\ apply.pc = "release" /\ lease' = "free"
      /\ apply' = [pc |-> "schedule", rows |-> {}, latest |-> None]
      /\ UNCHANGED <<sequenced, ops, clock, queue, dead, broken, inbox, intents, index, pass,
                     baseline, owed, faults, resolving>>
  BY DEF releasePass, Become, provider, stream
<1>3. pass.pc = "off" /\ pass.rows = {}
  BY <1>2, ApplierAlone
<1>4. Ids' = Ids
  BY <1>2 DEF Ids
<1>5. WorkTyped'
  BY <1>1, <1>2, <1>3, <1>4 DEF WorkTyped, ApplyType, PassType, ResolvingType
<1>6. RowsInHand'
  BY <1>2, <1>3 DEF RowsInHand
<1>7. WritesNoted'
  BY <1>1, <1>2, FrameNoted
<1>8. IndexKnown'
  BY <1>1, <1>2 DEF IndexKnown, Indexed, IndexedObject
<1>9. IntentsTyped' /\ faults' \in 0..MaxFaults
  BY <1>1, <1>2, FrameIntents DEF RestTyped
<1>10. sub' \in 0..MaxClock
  BY Bounds, SMTT(60) DEF releasePass
<1> QED BY <1>2, <1>5, <1>6, <1>7, <1>8, <1>9, <1>10, LeaseBase

\* A scoped pass is scheduled.
LEMMA BaseSchedule ==
    ASSUME Base, schedule PROVE Base'
<1>1. /\ OpsTyped /\ InboxTyped /\ IntentsTyped /\ WorkTyped
      /\ RestTyped /\ RowsInHand /\ WritesNoted /\ IndexKnown
  BY BaseParts
<1> DEFINE rows == Due("applied")
<1>2. /\ apply.pc = "schedule"
      /\ apply' = [pc |-> "idle", rows |-> {}, latest |-> None]
      /\ \/ UNCHANGED <<lease, pass>>
         \/ /\ rows # {} /\ lease = "free" /\ lease' = "scoped"
            /\ pass' = [pass EXCEPT !.pc = "scoped", !.rows = rows, !.kind = Kind(Newest(rows))]
      /\ UNCHANGED <<sequenced, ops, clock, queue, dead, broken, inbox, intents, index,
                     baseline, owed, faults, resolving, sub>>
  BY DEF schedule, Become, provider, stream
<1>3. rows \in SUBSET Ids /\ \A j \in rows : inbox[j].state = "applied"
  BY DEF Due
<1> HIDE DEF rows
<1>4. rows # {} => Kind(Newest(rows)) \in Kinds
  BY <1>1, <1>3, NewestIs, RowNumbers
<1>5. Ids' = Ids
  BY <1>2 DEF Ids
<1>6. IndexKnown'
  BY <1>1, <1>2 DEF IndexKnown, Indexed, IndexedObject
<1>7. IntentsTyped' /\ faults' \in 0..MaxFaults /\ sub' \in 0..MaxClock
  BY <1>1, <1>2, FrameIntents DEF RestTyped
<1>8. CASE UNCHANGED <<lease, pass>>
  <2>1. WorkTyped'
    BY <1>1, <1>2, <1>5, <1>8 DEF WorkTyped, ApplyType, PassType, ResolvingType
  <2>2. RowsInHand'
    BY <1>1, <1>2, <1>8 DEF RowsInHand
  <2>3. WritesNoted'
    BY <1>1, <1>2, <1>8, FrameNoted
  <2> QED BY <1>2, <1>6, <1>7, <2>1, <2>2, <2>3, LeaseBase
<1>9. CASE /\ rows # {} /\ lease = "free" /\ lease' = "scoped"
           /\ pass' = [pass EXCEPT !.pc = "scoped", !.rows = rows, !.kind = Kind(Newest(rows))]
  <2> DEFINE kd == Kind(Newest(rows))
  <2>1. kd \in Kinds /\ pass' = [pass EXCEPT !.pc = "scoped", !.rows = rows, !.kind = kd]
    BY <1>4, <1>9
  <2> HIDE DEF kd
  <2>2. /\ pass' \in [pc : {"scoped"}, rows : {rows}, kind : {kd}, at : 0..MaxClock,
                      seen : 0..Len(ops)]
        /\ pass'.pc = "scoped" /\ pass'.rows = rows
    BY <1>1, <2>1 DEF WorkTyped, PassType
  <2>3. WorkTyped'
    BY <1>1, <1>2, <1>3, <1>5, <1>9, <2>1, <2>2 DEF WorkTyped, ApplyType, PassType, ResolvingType
  <2>4. RowsInHand'
    BY <1>2, <1>3, <2>2 DEF RowsInHand
  <2>5. WritesNoted'
    <3>1. pass.pc = "off"
      BY <1>1, <1>9 DEF WorkTyped, PassType
    <3> QED BY <1>1, <1>2, <2>2, <3>1, NotedPass
  <2> QED BY <1>2, <1>6, <1>7, <2>3, <2>4, <2>5, LeaseBase
<1> QED BY <1>2, <1>8, <1>9

\* A scoped pass ends.
LEMMA BaseScoped ==
    ASSUME Base, NEW ok \in BOOLEAN, scopedFinish(ok) PROVE Base'
<1>1. /\ OpsTyped /\ InboxTyped /\ IntentsTyped /\ IndexTyped /\ WorkTyped
      /\ RestTyped /\ RowsInHand /\ IndexKnown
  BY BaseParts
<1>2. /\ pass.pc = "scoped" /\ lease' = "free" /\ pass' = NoPass
      /\ \/ inbox' = InState(inbox, pass.rows, "done")
         \/ inbox' = InState(inbox, pass.rows, "failed")
         \/ inbox' = Delayed(inbox, pass.rows)
      /\ Fault \/ faults' = faults
      /\ owed' \in BOOLEAN
      /\ UNCHANGED <<sequenced, ops, clock, queue, dead, broken, intents, index, apply, baseline,
                     resolving, sub>>
  <2>1. owed' \in BOOLEAN
    BY DEF scopedFinish
  <2> QED BY <2>1 DEF scopedFinish, PassOff, provider, stream
<1>3. apply.pc \in {"idle", "schedule"} /\ apply.rows = {} /\ apply.latest = None
  <2>1. pass.pc # "off"
    BY DEF scopedFinish
  <2> QED BY <2>1, PassAlone
<1>4. inbox' \in [Ids -> EventType] /\ \A j \in Ids : inbox'[j].op = inbox[j].op
  BY <1>1, <1>2, InStateIs, DelayedIs, SMTT(60) DEF States
<1>5. InboxTyped' /\ Ids' = Ids
  BY <1>1, <1>2, <1>4, Rewritten
<1>6. OpsTyped' /\ IntentsTyped' /\ IndexTyped'
  BY <1>1, <1>2, FrameOps, FrameIntents, FrameIndex
<1>7. WorkTyped'
  <2>1. NoPass \in PassType'
    BY <1>1, Bounds, OpsFacts, SMTT(60) DEF PassType, NoPass, Kinds, None
  <2> QED BY <1>1, <1>2, <1>3, <1>5, <2>1 DEF WorkTyped, ApplyType, ResolvingType, NoPass
<1>8. RestTyped'
  BY <1>1, <1>2, FaultTyped DEF RestTyped
<1>9. RowsInHand' /\ WritesNoted'
  <2>1. pass.pc \notin {"noted", "sent"} /\ pass'.pc \notin {"noted", "sent"} /\ WritesNoted
    BY <1>2, BaseParts DEF NoPass
  <2>2. WritesNoted'
    BY <1>2, <2>1, NotedPass
  <2> QED BY <1>2, <1>3, <2>2 DEF RowsInHand, NoPass
<1>10. IndexKnown'
  BY <1>1, <1>2, <1>3 DEF IndexKnown, Indexed, IndexedObject
<1> QED BY <1>5, <1>6, <1>7, <1>8, <1>9, <1>10, BaseNext

\* The pass that begins to list, and the listing.
LEMMA BaseListing ==
    ASSUME Base, beginListing \/ ListObjects PROVE Base'
<1>1. /\ OpsTyped /\ IntentsTyped /\ WorkTyped /\ InboxTyped
      /\ RestTyped /\ RowsInHand /\ IndexKnown
  BY BaseParts
<1>2. UNCHANGED <<sequenced, ops, clock, queue, dead, broken, inbox, intents, index, apply,
                  baseline, owed, faults, resolving, sub>>
  BY DEF beginListing, ListObjects, provider, stream
<1>3. /\ pass.rows = {} /\ pass.kind \in Kinds /\ apply.pc \in {"idle", "schedule"} /\ Ids' = Ids
      /\ pass' = [pc |-> pass'.pc, rows |-> {}, kind |-> pass.kind, at |-> pass'.at,
                  seen |-> pass'.seen]
      /\ pass'.pc \in {"listing", "listed"} /\ lease' = "regular"
      /\ pass'.at \in 0..MaxClock /\ pass'.seen \in 0..Len(ops)
  <2>0. pass \in PassType /\ Ids' = Ids
    BY <1>1, <1>2 DEF WorkTyped, Ids
  <2>a. clock \in 0..MaxClock
    BY <1>1, Bounds, SMTT(60) DEF OpsTyped
  <2>b. Object \in 0..Len(ops)
    BY <1>1, ObjectIs
  <2>1. pass \in PassType /\ Ids' = Ids /\ clock \in 0..MaxClock /\ Object \in 0..Len(ops)
    BY <2>0, <2>a, <2>b
  <2>2. CASE beginListing
    <3>1. lease = "free" /\ lease' = "regular" /\ pass' = [pass EXCEPT !.pc = "listing", !.at = clock]
      BY <2>2 DEF beginListing
    <3>2. pass.pc = "off" /\ apply.pc \in {"idle", "schedule"}
      BY <1>1, <3>1 DEF WorkTyped, PassType, ApplyType
    <3>3. pass.rows = {}
      BY <1>1, <3>2 DEF RowsInHand
    <3> QED BY <2>1, <3>1, <3>2, <3>3 DEF PassType
  <2>3. CASE ListObjects
    <3>1. pass.pc = "listing" /\ lease' = lease /\ pass' = [pass EXCEPT !.pc = "listed", !.seen = Object]
      BY <2>3 DEF ListObjects
    <3>2. apply.pc \in {"idle", "schedule"} /\ lease = "regular"
      BY <1>1, <3>1 DEF WorkTyped, ApplyType
    <3>3. pass.rows = {}
      BY <1>1, <3>1 DEF RowsInHand
    <3> QED BY <2>1, <3>1, <3>2, <3>3 DEF PassType
  <2> QED BY <2>2, <2>3
<1>4. WorkTyped'
  BY <1>1, <1>2, <1>3, SMTT(60) DEF WorkTyped, ApplyType, PassType, ResolvingType
<1>5. RowsInHand'
  BY <1>1, <1>2, <1>3, SMTT(60) DEF RowsInHand
<1>6. WritesNoted'
  <2>1. pass.pc \notin {"noted", "sent"}
    BY <1>1 DEF beginListing, ListObjects, WorkTyped
  <2>2. pass'.pc \notin {"noted", "sent"} /\ WritesNoted
    BY <1>3, BaseParts
  <2> QED BY <1>2, <2>1, <2>2, NotedPass
<1>7. IndexKnown'
  BY <1>1, <1>2, <1>3 DEF IndexKnown, Indexed, IndexedObject
<1>8. IntentsTyped' /\ faults' \in 0..MaxFaults /\ sub' \in 0..MaxClock
  BY <1>1, <1>2, FrameIntents DEF RestTyped
<1> QED BY <1>2, <1>4, <1>5, <1>6, <1>7, <1>8, LeaseBase

\* The end of a pass.
LEMMA PassEnds ==
    ASSUME Base, UNCHANGED <<ops, inbox, apply, resolving>>, lease' = "free", pass' = NoPass,
           apply.pc \in {"idle", "schedule"}
    PROVE  WorkTyped' /\ RowsInHand'
<1>1. OpsTyped /\ InboxTyped /\ WorkTyped /\ RowsInHand
  BY BaseParts
<1>2. NoPass \in PassType /\ Ids' = Ids
  BY <1>1, Bounds, OpsFacts, SMTT(60) DEF PassType, NoPass, Kinds, None, Ids
<1>3. WorkTyped'
  BY <1>1, <1>2 DEF WorkTyped, ApplyType, PassType, ResolvingType, NoPass
<1>4. apply.rows = {} /\ apply.latest = None
  BY <1>1 DEF RowsInHand
<1>5. RowsInHand'
  BY <1>4 DEF RowsInHand, NoPass
<1> QED BY <1>3, <1>5

\* A listing becomes the baseline.
LEMMA BaseListed ==
    ASSUME Base, onBaselineListed PROVE Base'
<1>1. OpsTyped /\ InboxTyped /\ IntentsTyped /\ WorkTyped /\ RestTyped
  BY BaseParts
<1>2. /\ pass.pc = "listed" /\ lease' = "free" /\ pass' = NoPass
      /\ index' = IF pass.seen = None THEN NoRow ELSE Row(pass.seen, None, None)
      /\ baseline' = [held |-> FALSE, at |-> pass.at] /\ owed' \in BOOLEAN
      /\ UNCHANGED <<sequenced, ops, clock, queue, dead, broken, inbox, intents, apply, faults,
                     resolving, sub>>
  <2>1. owed' \in BOOLEAN
    BY DEF onBaselineListed
  <2> QED BY <2>1 DEF onBaselineListed, PassOff, provider, stream
<1>3. apply.pc \in {"idle", "schedule"} /\ pass.seen \in 0..Len(ops) /\ pass.at \in 0..MaxClock
  BY <1>1, <1>2 DEF WorkTyped, ApplyType, PassType, ResolvingType
<1>4. WorkTyped' /\ RowsInHand' /\ WritesNoted'
  <2>1. pass.pc \notin {"noted", "sent"} /\ pass'.pc \notin {"noted", "sent"} /\ WritesNoted
    BY <1>2, BaseParts DEF NoPass
  <2>2. WritesNoted'
    BY <1>2, <2>1, NotedPass
  <2> QED BY <1>2, <1>3, <2>2, PassEnds
<1>5. OpsTyped' /\ InboxTyped' /\ IntentsTyped'
  BY <1>1, <1>2, FrameOps, FrameInbox, FrameIntents
<1>6. IndexTyped'
  BY <1>1, <1>2, <1>3, OpsFacts, SMTT(60) DEF IndexTyped, Row, NoRow, None
<1>7. baseline' \in [held : BOOLEAN, at : 0..MaxClock]
  BY <1>2, <1>3
<1>8. RestTyped'
  BY <1>1, <1>2, <1>7 DEF RestTyped
<1>9. IndexKnown'
  BY <1>2, <1>3 DEF IndexKnown, Indexed, IndexedObject, Row, NoRow, None
<1> QED BY <1>4, <1>5, <1>6, <1>8, <1>9, BaseNext

\* An intent is recorded, or cannot be, for a write that begins.
LEMMA NoteBase ==
    ASSUME OpsTyped, IntentsTyped, RestTyped, WritesNoted, ops' = ops,
           NEW by \in {"pass", "resolution"}, NEW kind \in Kinds, Note(by, kind),
           IF by = "pass"
           THEN /\ pass.pc \notin {"noted", "sent"} /\ resolving' = resolving
                /\ pass'.pc = "noted" /\ pass'.kind = kind
           ELSE /\ pass' = pass /\ resolving.pc = "off" /\ resolving'.pc = "noted"
                /\ kind = "Created" /\ "unleased" \in Admit
    PROVE  IntentsTyped' /\ WritesNoted' /\ faults' \in 0..MaxFaults
<1>1. Held(by) = {}
  BY DEF WritesNoted
<1>2. faults' \in 0..MaxFaults
  BY FaultTyped DEF Note, RestTyped
<1>3. \/ intents' = intents /\ "intentFails" \in Admit
      \/ intents' = Noted(by, kind)
  BY DEF Note
<1>4. CASE intents' = intents /\ "intentFails" \in Admit
  <2>1. \A b : Held(b)' = Held(b)
    BY <1>4 DEF Held
  <2>2. IntentsTyped'
    BY <1>4, FrameIntents
  <2>3. WritesNoted'
    BY <1>1, <1>4, <2>1 DEF WritesNoted
  <2> QED BY <1>2, <2>2, <2>3
<1>5. CASE intents' = Noted(by, kind)
  <2> DEFINE n == Len(intents) + 1
  <2>1. /\ IntentsTyped' /\ n \notin DOMAIN intents
        /\ DOMAIN intents' = DOMAIN intents \cup {n}
        /\ \A k \in DOMAIN intents : intents'[k] = intents[k]
        /\ intents'[n] = [op |-> kind, etag |-> None, at |-> clock, by |-> by]
    BY <1>5, NotedIs
  <2> HIDE DEF n
  <2>2. intents'[n].by = by /\ intents'[n].op = kind /\ intents'[n].etag = None
    BY <2>1, SMTT(60)
  <2>3. Held(by)' = {n}
    BY <1>1, <2>1, <2>2 DEF Held
  <2>4. \A b : b # by => Held(b)' = Held(b)
    BY <2>1, <2>2 DEF Held
  <2>5. \A b \in {"pass", "resolution"} : \A k \in Held(b) : intents'[k] = intents[k]
    BY <2>1 DEF Held
  <2>6. WritesNoted'
    <3>1. CASE by = "pass"
      <4>1. Held("pass")' = {n} /\ Held("resolution")' = Held("resolution")
        BY <2>3, <2>4, <3>1
      <4>2. \A k \in Held("resolution") : intents'[k] = intents[k]
        BY <2>5
      <4>3. /\ pass'.pc = "noted" /\ pass'.kind = kind /\ resolving' = resolving
            /\ intents'[n].op = kind /\ intents'[n].etag = None
        BY <2>2, <3>1
      <4>4. ASSUME NEW b \in {"pass", "resolution"}, NEW k \in Held(b)', NEW l \in Held(b)'
            PROVE  k = l
        <5>1. CASE b = "pass"
          BY <4>1, <4>4, <5>1
        <5>2. CASE b = "resolution"
          <6>1. k \in Held("resolution") /\ l \in Held("resolution")
            BY <4>1, <4>4, <5>2
          <6> QED BY <6>1 DEF WritesNoted
        <5> QED BY <5>1, <5>2
      <4>5. \A k \in Held("resolution")' :
              /\ resolving'.pc \in {"noted", "sent"}
              /\ intents'[k].op = "Created" /\ intents'[k].etag = None
        BY <4>1, <4>2, <4>3 DEF WritesNoted
      <4>6. /\ resolving'.pc \in {"sent", "done"} =>
                  resolving'.seen # None /\ ops'[resolving'.seen].own
            /\ resolving'.pc # "off" => "unleased" \in Admit
        BY <4>3 DEF WritesNoted
      <4> QED BY <4>1, <4>3, <4>4, <4>5, <4>6 DEF WritesNoted
    <3>2. CASE by = "resolution"
      <4>1. Held("resolution")' = {n} /\ Held("pass")' = Held("pass")
        BY <2>3, <2>4, <3>2
      <4>2. \A k \in Held("pass") : intents'[k] = intents[k]
        BY <2>5
      <4>3. /\ resolving'.pc = "noted" /\ pass' = pass /\ "unleased" \in Admit
            /\ intents'[n].op = "Created" /\ intents'[n].etag = None
        BY <2>2, <3>2
      <4>4. ASSUME NEW b \in {"pass", "resolution"}, NEW k \in Held(b)', NEW l \in Held(b)'
            PROVE  k = l
        <5>1. CASE b = "resolution"
          BY <4>1, <4>4, <5>1
        <5>2. CASE b = "pass"
          <6>1. k \in Held("pass") /\ l \in Held("pass")
            BY <4>1, <4>4, <5>2
          <6> QED BY <6>1 DEF WritesNoted
        <5> QED BY <5>1, <5>2
      <4>5. /\ pass'.pc \in {"noted", "sent"} => Held("pass")' # {} \/ "intentFails" \in Admit
            /\ \A k \in Held("pass")' :
                  /\ pass'.pc \in {"noted", "sent"}
                  /\ intents'[k].op = pass'.kind /\ intents'[k].etag = None
        <5>1. /\ pass.pc \in {"noted", "sent"} => Held("pass") # {} \/ "intentFails" \in Admit
              /\ \A k \in Held("pass") :
                    /\ pass.pc \in {"noted", "sent"}
                    /\ intents[k].op = pass.kind /\ intents[k].etag = None
          BY DEF WritesNoted
        <5> QED BY <4>1, <4>2, <4>3, <5>1
      <4>6. pass'.pc = "sent" =>
              pass'.seen # None /\ ops'[pass'.seen].own /\ ops'[pass'.seen].kind = pass'.kind
        BY <4>3 DEF WritesNoted
      <4> QED BY <4>1, <4>3, <4>4, <4>5, <4>6 DEF WritesNoted
    <3> QED BY <3>1, <3>2
  <2> QED BY <1>2, <2>1, <2>6
<1> QED BY <1>3, <1>4, <1>5

\* A write of ours is noted.
LEMMA BaseNote ==
    ASSUME Base, NEW kind \in Kinds, noteOwnWrite(kind) PROVE Base'
<1>1. /\ OpsTyped /\ InboxTyped /\ IntentsTyped /\ WorkTyped
      /\ RestTyped /\ RowsInHand /\ WritesNoted /\ IndexKnown
  BY BaseParts
<1>2. /\ lease = "free" /\ lease' = "regular"
      /\ pass' = [pass EXCEPT !.pc = "noted", !.kind = kind]
      /\ Note("pass", kind)
      /\ UNCHANGED <<sequenced, ops, clock, queue, dead, broken, inbox, index, apply, baseline,
                     owed, resolving, sub>>
  BY DEF noteOwnWrite, provider, stream
<1>3. pass.pc = "off" /\ apply.pc \in {"idle", "schedule"} /\ Ids' = Ids
  BY <1>1, <1>2 DEF WorkTyped, PassType, ApplyType, Ids
<1>4. pass.rows = {}
  BY <1>1, <1>3 DEF RowsInHand
<1>5. /\ pass' = [pc |-> "noted", rows |-> {}, kind |-> kind, at |-> pass.at, seen |-> pass.seen]
      /\ pass.at \in 0..MaxClock /\ pass.seen \in 0..Len(ops)
  BY <1>1, <1>2, <1>4 DEF WorkTyped, PassType
<1>6. WorkTyped'
  BY <1>1, <1>2, <1>3, <1>5 DEF WorkTyped, ApplyType, PassType, ResolvingType
<1>7. RowsInHand'
  BY <1>1, <1>2, <1>3, <1>5 DEF RowsInHand
<1>8. IntentsTyped' /\ WritesNoted' /\ faults' \in 0..MaxFaults
  <2>1. pass'.pc = "noted" /\ pass'.kind = kind /\ "pass" \in {"pass", "resolution"}
    BY <1>5
  <2> QED BY <1>1, <1>2, <1>3, <2>1, NoteBase
<1>9. IndexKnown'
  BY <1>1, <1>2, <1>3 DEF IndexKnown, Indexed, IndexedObject
<1>10. sub' \in 0..MaxClock
  BY <1>1, <1>2 DEF RestTyped
<1> QED BY <1>2, <1>6, <1>7, <1>8, <1>9, <1>10, LeaseBase

\* The request of a write of ours.
LEMMA BaseRequest ==
    ASSUME Base, Request PROVE Base'
<1>1. /\ OpsTyped /\ InboxTyped /\ IntentsTyped /\ IndexTyped /\ WorkTyped
      /\ RestTyped /\ RowsInHand /\ WritesNoted /\ IndexKnown
  BY BaseParts
<1>2. /\ pass.pc = "noted" /\ Operate(pass.kind, TRUE)
      /\ pass' = [pass EXCEPT !.pc = "sent", !.seen = Len(ops) + 1]
      /\ UNCHANGED <<clock, inbox, intents, index, lease, apply, baseline, owed, faults,
                     resolving, sub>>
  BY DEF Request
<1>3. pass \in PassType /\ pass.kind \in Kinds /\ TRUE \in BOOLEAN
  BY <1>1 DEF WorkTyped, PassType
<1>4. /\ OpsTyped' /\ Len(ops') = Len(ops) + 1 /\ DOMAIN ops' = 1..Len(ops) + 1
      /\ \A n \in 1..Len(ops) : ops'[n] = ops[n]
      /\ ops'[Len(ops) + 1] = [kind |-> pass.kind, ms |-> clock, own |-> TRUE]
      /\ Object' \in {None, Len(ops) + 1}
  BY <1>1, <1>2, <1>3, OpsGrow
<1>5. /\ InboxTyped' /\ Ids' = Ids /\ IntentsTyped' /\ IndexTyped'
      /\ \A i \in Ids : Kind(i)' = Kind(i)
  BY <1>1, <1>2, <1>4, Grown
<1>6. Len(ops) \in Nat
  BY <1>1, OpsFacts
<1>7. pass' = [pc |-> "sent", rows |-> pass.rows, kind |-> pass.kind, at |-> pass.at,
               seen |-> Len(ops) + 1]
  BY <1>2, <1>3 DEF PassType
<1>8. WorkTyped'
  BY <1>1, <1>2, <1>3, <1>4, <1>5, <1>6, <1>7, SMTT(60)
     DEF WorkTyped, ApplyType, PassType, ResolvingType
<1>9. RestTyped'
  BY <1>1, <1>2, FrameRest
<1>10. apply.pc \in {"idle", "schedule"} /\ apply.rows = {} /\ apply.latest = None
  BY <1>2, PassAlone
<1>11. pass.rows = {}
  BY <1>1, <1>2 DEF RowsInHand
<1>12. RowsInHand'
  BY <1>2, <1>7, <1>10, <1>11 DEF RowsInHand
<1>13. WritesNoted'
  <2>1. \A b : Held(b)' = Held(b)
    BY <1>2 DEF Held
  <2>2. /\ Len(ops) + 1 # None /\ pass'.pc = "sent" /\ pass'.kind = pass.kind
        /\ pass'.seen = Len(ops) + 1
    BY <1>6, <1>7, SMTT(60) DEF None
  <2>3. ops'[Len(ops) + 1].own = TRUE /\ ops'[Len(ops) + 1].kind = pass.kind
    BY <1>4, SMTT(60)
  <2>4. resolving.seen # None => ops'[resolving.seen] = ops[resolving.seen]
    <3>1. resolving.seen \in 0..Len(ops)
      BY <1>1 DEF WorkTyped, ResolvingType
    <3> QED BY <1>4, <1>6, <3>1, SMTT(60) DEF None
  <2> QED BY <1>1, <1>2, <2>1, <2>2, <2>3, <2>4 DEF WritesNoted
<1>14. IndexKnown'
  BY <1>1, <1>2, <1>4, <1>5, GrownKnown
<1> QED BY <1>4, <1>5, <1>8, <1>9, <1>12, <1>13, <1>14, BaseNext

\* How a write that failed leaves the intents.
LEMMA FailedIs ==
    ASSUME OpsTyped, RestTyped, NEW by, Failed(by)
    PROVE  /\ intents' = Forgotten(by) \/ \E e \in 0..Len(ops) : intents' = Completed(by, e)
           /\ faults' \in 0..MaxFaults
<1>1. None \in 0..Len(ops)
  BY OpsFacts, SMTT(60) DEF None
<1>2. intents' = Forgotten(by) \/ intents' = Completed(by, None)
  BY DEF Failed
<1>3. Fault \/ faults' = faults
  BY DEF Failed
<1> QED BY <1>1, <1>2, <1>3, FaultTyped DEF RestTyped

\* The request fails.
LEMMA BaseRequestFails ==
    ASSUME Base, RequestFails PROVE Base'
<1>1. /\ OpsTyped /\ IntentsTyped /\ WorkTyped /\ RestTyped /\ WritesNoted /\ IndexKnown
  BY BaseParts
<1>2. /\ pass.pc = "noted" /\ lease' = "free" /\ pass' = NoPass
      /\ Failed("pass")
      /\ UNCHANGED <<sequenced, ops, clock, queue, dead, broken, inbox, index, apply, baseline,
                     owed, resolving, sub>>
  BY DEF RequestFails, PassOff, provider, stream
<1>3. /\ intents' = Forgotten("pass") \/ \E e \in 0..Len(ops) : intents' = Completed("pass", e)
      /\ faults' \in 0..MaxFaults
  BY <1>1, <1>2, FailedIs
<1>4. apply.pc \in {"idle", "schedule"}
  BY <1>2, PassAlone
<1>5. WorkTyped' /\ RowsInHand'
  BY <1>2, <1>4, PassEnds
<1>6. IntentsTyped' /\ WritesNoted'
  <2>1. "pass" \in {"pass", "resolution"} /\ pass'.pc \notin {"noted", "sent"}
    BY <1>2 DEF NoPass
  <2> QED BY <1>1, <1>2, <1>3, <2>1, LetGo
<1>7. IndexKnown'
  BY <1>1, <1>2, <1>4 DEF IndexKnown, Indexed, IndexedObject
<1>8. sub' \in 0..MaxClock
  BY <1>1, <1>2 DEF RestTyped
<1> QED BY <1>2, <1>3, <1>5, <1>6, <1>7, <1>8, LeaseBase

\* How a write that succeeded does.
LEMMA DoneIs ==
    ASSUME OpsTyped, RestTyped, NEW by, NEW e \in 0..Len(ops), done(by, e)
    PROVE  /\ \E f \in 0..Len(ops) : intents' = Completed(by, f)
           /\ faults' \in 0..MaxFaults
<1>1. None \in 0..Len(ops)
  BY OpsFacts, SMTT(60) DEF None
<1>2. intents' = Completed(by, e) \/ intents' = Completed(by, None)
  BY DEF done
<1>3. Fault \/ faults' = faults
  BY DEF done
<1> QED BY <1>1, <1>2, <1>3, FaultTyped DEF RestTyped

\* The pass of a write of ours ends.
LEMMA BaseMutation ==
    ASSUME Base, applyRemoteIndexMutation PROVE Base'
<1>1. /\ OpsTyped /\ InboxTyped /\ IntentsTyped /\ IndexTyped /\ WorkTyped
      /\ RestTyped /\ WritesNoted /\ IndexKnown
  BY BaseParts
<1> DEFINE e == IF pass.kind = "Created" THEN pass.seen ELSE None
<1>2. /\ pass.pc = "sent" /\ lease' = "free" /\ pass' = NoPass
      /\ done("pass", e)
      /\ index' \in {index, NoRow, Row(None, index.seq, pass.seen)}
      /\ owed' \in BOOLEAN
      /\ UNCHANGED <<sequenced, ops, clock, queue, dead, broken, inbox, apply, baseline,
                     resolving, sub>>
  <2>1. owed' \in BOOLEAN
    BY DEF applyRemoteIndexMutation
  <2> QED BY <2>1 DEF applyRemoteIndexMutation, PassOff, provider, stream
<1>3. apply.pc \in {"idle", "schedule"}
  BY <1>2, PassAlone
<1>4. WorkTyped' /\ RowsInHand'
  BY <1>2, <1>3, PassEnds
<1>5. pass.seen \in 0..Len(ops) /\ pass.seen # None
  BY <1>1, <1>2 DEF WorkTyped, PassType, WritesNoted
<1>6. OpsTyped' /\ InboxTyped'
  BY <1>1, <1>2, FrameOps, FrameInbox
<1>7. IntentsTyped' /\ WritesNoted' /\ faults' \in 0..MaxFaults
  <2>1. e \in 0..Len(ops)
    BY <1>1, <1>5, OpsFacts, SMTT(60) DEF None
  <2> HIDE DEF e
  <2>2. /\ \E f \in 0..Len(ops) : intents' = Completed("pass", f)
        /\ faults' \in 0..MaxFaults
    BY <1>1, <1>2, <2>1, DoneIs
  <2>3. "pass" \in {"pass", "resolution"} /\ pass'.pc \notin {"noted", "sent"}
    BY <1>2 DEF NoPass
  <2> QED BY <1>1, <1>2, <2>2, <2>3, LetGo
<1>8. IndexTyped'
  BY <1>1, <1>2, <1>5, OpsFacts, SMTT(60) DEF IndexTyped, Row, NoRow, None
<1>9. RestTyped'
  BY <1>1, <1>2, <1>7 DEF RestTyped
<1>10. IndexKnown'
  BY <1>1, <1>2, <1>3, <1>5, SMTT(60) DEF IndexKnown, Indexed, IndexedObject, Row, NoRow
<1> QED BY <1>4, <1>6, <1>7, <1>8, <1>9, <1>10, BaseNext

\* The resolution of a conflict notes its upload, and fails.
LEMMA BaseResolution ==
    ASSUME Base, noteResolution \/ ResolutionFails \/ ResolutionDone PROVE Base'
<1>1. /\ OpsTyped /\ InboxTyped /\ IntentsTyped /\ WorkTyped
      /\ RestTyped /\ RowsInHand /\ WritesNoted /\ IndexKnown
  BY BaseParts
<1>2. UNCHANGED <<sequenced, ops, clock, queue, dead, broken, inbox, index, lease, apply, pass,
                  baseline, owed, sub>>
  BY DEF noteResolution, ResolutionFails, ResolutionDone, provider, stream
<1>3. Ids' = Ids /\ \A i \in Ids : Kind(i)' = Kind(i)
  BY <1>1, <1>2, FrameInbox
<1>4. RowsInHand' /\ IndexKnown'
  BY <1>1, <1>2, <1>3, FrameHand, FrameKnown
<1>5. resolving.seen \in 0..Len(ops) /\ None \in 0..Len(ops) /\ resolving \in ResolvingType
  BY <1>1, OpsFacts, SMTT(60) DEF WorkTyped, ResolvingType, None
<1>6. resolving' \in ResolvingType
  <2>1. \E pc \in {"off", "noted", "done"}, seen \in {None, resolving.seen} : Resolving(pc, seen)
    BY DEF noteResolution, ResolutionFails, ResolutionDone
  <2>2. PICK pc \in {"off", "noted", "done"}, seen \in {None, resolving.seen} :
          resolving' = [pc |-> pc, seen |-> seen]
    BY <2>1 DEF Resolving
  <2>3. seen \in 0..Len(ops) /\ pc \in {"off", "noted", "sent", "done"} /\ ops' = ops
    BY <1>2, <1>5
  <2> QED BY <2>2, <2>3 DEF ResolvingType
<1>7. WorkTyped'
  BY <1>1, <1>2, <1>3, <1>6 DEF WorkTyped, ApplyType, PassType, ResolvingType
<1>8. IntentsTyped' /\ WritesNoted' /\ faults' \in 0..MaxFaults
  <2>1. "resolution" \in {"pass", "resolution"} /\ "resolution" # "pass" /\ "Created" \in Kinds
    BY DEF Kinds
  <2>2. CASE noteResolution
    <3>1. /\ Note("resolution", "Created") /\ resolving.pc = "off" /\ resolving'.pc = "noted"
          /\ "unleased" \in Admit
      BY <2>2 DEF noteResolution, Resolving
    <3> QED BY <1>1, <1>2, <2>1, <3>1, NoteBase
  <2>3. CASE ResolutionFails
    <3>1. Failed("resolution") /\ resolving'.pc = "off"
      BY <2>3 DEF ResolutionFails, Resolving
    <3>2. /\ \/ intents' = Forgotten("resolution")
             \/ \E e \in 0..Len(ops) : intents' = Completed("resolution", e)
          /\ faults' \in 0..MaxFaults
      BY <1>1, <3>1, FailedIs
    <3> QED BY <1>1, <1>2, <2>1, <3>1, <3>2, LetGo
  <2>4. CASE ResolutionDone
    <3>1. /\ done("resolution", resolving.seen) /\ resolving.pc = "sent"
          /\ resolving'.pc = "done" /\ resolving'.seen = resolving.seen
      BY <2>4 DEF ResolutionDone, Resolving
    <3>2. /\ \E e \in 0..Len(ops) : intents' = Completed("resolution", e)
          /\ faults' \in 0..MaxFaults
      BY <1>1, <1>5, <3>1, DoneIs
    <3> QED BY <1>1, <1>2, <2>1, <3>1, <3>2, LetGo
  <2> QED BY <2>2, <2>3, <2>4
<1>9. sub' \in 0..MaxClock
  BY <1>1, <1>2 DEF RestTyped
<1> QED BY <1>2, <1>4, <1>7, <1>8, <1>9, LeaseBase

\* Its request.
LEMMA BaseResolutionRequest ==
    ASSUME Base, ResolutionRequest PROVE Base'
<1>1. /\ OpsTyped /\ InboxTyped /\ IntentsTyped /\ IndexTyped /\ WorkTyped
      /\ RestTyped /\ RowsInHand /\ WritesNoted /\ IndexKnown
  BY BaseParts
<1>2. /\ resolving.pc = "noted" /\ Operate("Created", TRUE)
      /\ resolving' = [pc |-> "sent", seen |-> Len(ops) + 1]
      /\ UNCHANGED <<clock, inbox, intents, index, lease, apply, pass, baseline, owed, faults, sub>>
  BY DEF ResolutionRequest, Resolving
<1>3. "Created" \in Kinds /\ TRUE \in BOOLEAN
  BY DEF Kinds
<1>4. /\ OpsTyped' /\ Len(ops') = Len(ops) + 1 /\ DOMAIN ops' = 1..Len(ops) + 1
      /\ \A n \in 1..Len(ops) : ops'[n] = ops[n]
      /\ ops'[Len(ops) + 1] = [kind |-> "Created", ms |-> clock, own |-> TRUE]
      /\ Object' \in {None, Len(ops) + 1}
  BY <1>1, <1>2, <1>3, OpsGrow
<1>5. /\ InboxTyped' /\ Ids' = Ids /\ IntentsTyped' /\ IndexTyped'
      /\ \A i \in Ids : Kind(i)' = Kind(i)
  BY <1>1, <1>2, <1>4, Grown
<1>6. Len(ops) \in Nat
  BY <1>1, OpsFacts
<1>7. WorkTyped'
  <2>1. resolving' \in [pc : {"off", "noted", "sent", "done"}, seen : 0..Len(ops) + 1]
    BY <1>2, <1>6, SMTT(60)
  <2>2. pass \in [pc : {"off", "scoped", "listing", "listed", "noted", "sent"},
                  rows : SUBSET Ids, kind : Kinds, at : 0..MaxClock, seen : 0..Len(ops) + 1]
    BY <1>1, <1>6, SMTT(60) DEF WorkTyped, PassType
  <2> QED BY <1>1, <1>2, <1>4, <1>5, <2>1, <2>2 DEF WorkTyped, ApplyType, PassType, ResolvingType
<1>8. RestTyped'
  BY <1>1, <1>2, FrameRest
<1>9. RowsInHand'
  BY <1>1, <1>2, <1>5, FrameHand
<1>10. WritesNoted'
  <2>1. \A b : Held(b)' = Held(b)
    BY <1>2 DEF Held
  <2>2. Len(ops) + 1 # None /\ resolving'.pc = "sent" /\ resolving'.seen = Len(ops) + 1
    BY <1>2, <1>6, SMTT(60) DEF None
  <2>3. ops'[Len(ops) + 1].own = TRUE
    BY <1>4, SMTT(60)
  <2>4. pass.seen # None => ops'[pass.seen] = ops[pass.seen]
    <3>1. pass.seen \in 0..Len(ops)
      BY <1>1 DEF WorkTyped, PassType
    <3> QED BY <1>4, <1>6, <3>1, SMTT(60) DEF None
  <2> QED BY <1>1, <1>2, <2>1, <2>2, <2>3, <2>4 DEF WritesNoted
<1>11. IndexKnown'
  BY <1>1, <1>2, <1>4, <1>5, GrownKnown
<1> QED BY <1>4, <1>5, <1>7, <1>8, <1>9, <1>10, <1>11, BaseNext

\* Its index row.
LEMMA BaseResolutionIndexed ==
    ASSUME Base, ResolutionIndexed PROVE Base'
<1>1. /\ OpsTyped /\ InboxTyped /\ IntentsTyped /\ IndexTyped /\ WorkTyped
      /\ RestTyped /\ RowsInHand /\ WritesNoted /\ IndexKnown
  BY BaseParts
<1>2. /\ resolving.pc = "done" /\ index' = Row(None, index.seq, resolving.seen)
      /\ resolving' = [pc |-> "off", seen |-> None]
      /\ UNCHANGED <<sequenced, ops, clock, queue, dead, broken, inbox, intents, lease, apply,
                     pass, baseline, owed, faults, sub>>
  BY DEF ResolutionIndexed, Resolving, provider, stream
<1>3. resolving.seen \in 0..Len(ops) /\ resolving.seen # None /\ "unleased" \in Admit
  BY <1>1, <1>2 DEF WorkTyped, ResolvingType, WritesNoted
<1>4. InboxTyped' /\ Ids' = Ids /\ \A i \in Ids : Kind(i)' = Kind(i)
  BY <1>1, <1>2, FrameInbox
<1>5. OpsTyped' /\ IntentsTyped' /\ RestTyped'
  BY <1>1, <1>2, FrameOps, FrameIntents, FrameRest
<1>6. IndexTyped'
  BY <1>1, <1>2, <1>3, OpsFacts, SMTT(60) DEF IndexTyped, Row, None
<1>7. WorkTyped'
  <2>1. resolving' \in ResolvingType
    BY <1>1, <1>2, OpsFacts, SMTT(60) DEF ResolvingType, None
  <2> QED BY <1>1, <1>2, <1>4, <2>1 DEF WorkTyped, ApplyType, PassType, ResolvingType
<1>8. RowsInHand'
  BY <1>1, <1>2, <1>4, FrameHand
<1>9. WritesNoted'
  <2>1. \A b : Held(b)' = Held(b)
    BY <1>2 DEF Held
  <2>2. Held("resolution") = {} /\ resolving'.pc = "off"
    BY <1>1, <1>2 DEF WritesNoted
  <2> QED BY <1>1, <1>2, <2>1, <2>2 DEF WritesNoted
<1>10. IndexKnown'
  BY <1>2, <1>3, SMTT(60) DEF IndexKnown, Indexed, IndexedObject, Row, NoRow
<1> QED BY <1>4, <1>5, <1>6, <1>7, <1>8, <1>9, <1>10, BaseNext

\* Rows that are dropped or put off before the applier has the lease.
LEMMA BaseUnleased ==
    ASSUME Base, skipInactive \/ delayProtected PROVE Base'
<1>1. /\ OpsTyped /\ InboxTyped /\ IntentsTyped /\ IndexTyped /\ WorkTyped
      /\ RestTyped /\ RowsInHand /\ WritesNoted /\ IndexKnown
  BY BaseParts
<1>2. /\ apply.pc = "idle" /\ (Fault \/ faults' = faults)
      /\ \/ inbox' = Skipped(inbox, Due("pending"), "unknown")
         \/ inbox' = Delayed(inbox, Due("pending"))
      /\ UNCHANGED <<sequenced, ops, clock, queue, dead, broken, intents, index, lease, apply,
                     pass, baseline, owed, resolving, sub>>
  BY DEF skipInactive, delayProtected, provider, stream
<1>3. \A i \in Due("pending") : inbox[i].state # "applied"
  BY DEF Due
<1>4. /\ inbox' \in [Ids -> EventType] /\ \A i \in Ids : inbox'[i].op = inbox[i].op
      /\ \A i \in Ids : inbox[i].state = "applied" => inbox'[i].state = "applied"
  BY <1>1, <1>2, <1>3, SkippedIs, DelayedIs, SMTT(60)
<1>5. InboxTyped' /\ Ids' = Ids /\ \A i \in Ids : Kind(i)' = Kind(i)
  BY <1>1, <1>2, <1>4, Rewritten
<1>6. OpsTyped' /\ IntentsTyped' /\ IndexTyped'
  BY <1>1, <1>2, FrameOps, FrameIntents, FrameIndex
<1>7. WorkTyped'
  BY <1>1, <1>2, <1>5, FrameWork
<1>8. RestTyped'
  BY <1>1, <1>2, FaultTyped DEF RestTyped
<1>9. RowsInHand'
  <2>1. pass.rows \subseteq Ids
    BY <1>1 DEF WorkTyped, PassType
  <2> QED BY <1>1, <1>2, <1>4, <2>1 DEF RowsInHand
<1>10. WritesNoted' /\ IndexKnown'
  BY <1>1, <1>2, <1>5, FrameNoted, FrameKnown
<1> QED BY <1>5, <1>6, <1>7, <1>8, <1>9, <1>10, BaseNext

\* A restart.
LEMMA BaseCrash ==
    ASSUME Base, Crash PROVE Base'
<1>1. OpsTyped /\ InboxTyped /\ IntentsTyped /\ WorkTyped /\ RestTyped /\ IndexKnown
  BY BaseParts
<1>2. /\ Fault /\ lease' = "free" /\ pass' = NoPass /\ sub' = 0
      /\ resolving' = [pc |-> "off", seen |-> None]
      /\ apply' = [pc |-> "idle", rows |-> {}, latest |-> None]
      /\ intents' = [k \in DOMAIN intents |-> [intents[k] EXCEPT !.by = "nobody"]]
      /\ UNCHANGED <<sequenced, ops, clock, queue, dead, broken, inbox, index, baseline, owed>>
  BY DEF Crash, PassOff, Resolving, provider, stream
<1>3. NoPass \in PassType /\ resolving' \in ResolvingType /\ Ids' = Ids
  BY <1>1, <1>2, Bounds, OpsFacts, SMTT(60)
     DEF PassType, ResolvingType, NoPass, Kinds, None, Ids
<1>4. WorkTyped'
  BY <1>2, <1>3 DEF WorkTyped, ApplyType, PassType, ResolvingType, NoPass
<1>5. IntentsTyped' /\ \A k \in DOMAIN intents' : intents'[k].by = "nobody"
  <2>1. /\ Len(intents) \in Nat /\ DOMAIN intents = 1..Len(intents)
        /\ \A k \in 1..Len(intents) : intents[k] \in IntentType
    BY <1>1, IntentsFacts
  <2>2. \A k \in DOMAIN intents : intents'[k] \in IntentType /\ intents'[k].by = "nobody"
    <3> TAKE k \in DOMAIN intents
    <3>1. intents'[k] = [intents[k] EXCEPT !.by = "nobody"] /\ intents[k] \in IntentType
      BY <1>2, <2>1
    <3> QED BY <3>1 DEF IntentType
  <2>3. intents' \in [1..Len(intents) -> IntentType] /\ DOMAIN intents' = DOMAIN intents
    BY <1>2, <2>1, <2>2
  <2>4. intents' \in Seq(IntentType) /\ IntentType' = IntentType
    BY <1>2, <2>1, <2>3, SeqIs DEF IntentType
  <2> QED BY <2>2, <2>3, <2>4 DEF IntentsTyped
<1>6. RowsInHand' /\ WritesNoted'
  <2>1. Held("pass")' = {} /\ Held("resolution")' = {}
    BY <1>5 DEF Held
  <2>2. pass'.pc = "off" /\ pass'.rows = {} /\ resolving'.pc = "off"
    BY <1>2 DEF NoPass
  <2>3. WritesNoted'
    BY <2>1, <2>2 DEF WritesNoted
  <2> QED BY <1>2, <2>2, <2>3 DEF RowsInHand
<1>7. IndexKnown'
  BY <1>1, <1>2 DEF IndexKnown, Indexed, IndexedObject
<1>8. faults' \in 0..MaxFaults /\ sub' \in 0..MaxClock
  BY <1>1, <1>2, FaultTyped, Bounds, SMTT(60)
<1> QED BY <1>2, <1>4, <1>5, <1>6, <1>7, <1>8, LeaseBase

\* Base is inductive.
LEMMA BaseStep ==
    ASSUME Base, [Next]_vars PROVE Base'
<1>1. CASE \E kind \in Kinds : External(kind) \/ noteOwnWrite(kind)
  BY <1>1, BaseExternal, BaseNote
<1>2. CASE \E m \in Ops : Lose(m) \/ pollOnce(m)
  BY <1>2, BaseStream, BasePoll
<1>3. CASE \E i \in Ops : retryDue(i) \/ expireIntent(i)
  BY <1>3, BaseRetry, BaseExpire
<1>4. CASE Tick \/ checkDeadLetters \/ checkContinuity
  BY <1>4, BaseStream
<1>5. CASE ApplierStep
  BY <1>5, BaseUnleased, BaseClaim, BaseOwnRemoval, BaseSupersede, BaseHead, BaseSettle, BaseMark,
     BaseRelease, BaseSchedule DEF ApplierStep
<1>6. CASE PassStep
  BY <1>6, BaseScoped, BaseListing, BaseListed, BaseRequest, BaseRequestFails, BaseMutation
     DEF PassStep
<1>7. CASE Crash
  BY <1>7, BaseCrash
<1>8. CASE ResolutionStep
  BY <1>8, BaseResolution, BaseResolutionRequest, BaseResolutionIndexed DEF ResolutionStep
<1>9. CASE UNCHANGED vars
  BY <1>9, BaseStutter
<1> QED BY <1>1, <1>2, <1>3, <1>4, <1>5, <1>6, <1>7, <1>8, <1>9 DEF Next

\* Every variable has its type in every behaviour: the threads and the
\* provider never leave a row, a lease or an intent that is not one.
THEOREM TypeCorrect == Spec => []TypeOK
<1>1. Base => TypeOK
  BY DEF Base
<1> QED BY <1>1, BaseInit, BaseStep, PTL DEF Spec

\* The applier's batch stays pending and the pass's rows applied for as long
\* as they are worked on, so that no row is settled twice; the open intent of a
\* write is its own; and an index row names an operation.
THEOREM WorkInHand == Spec => []InboxInv
<1>1. Base => InboxInv
  BY DEF Base
<1> QED BY <1>1, BaseInit, BaseStep, PTL DEF Spec

\* Where conflicts are not resolved meanwhile, nobody writes without the lease.
LEMMA NoResolving ==
    ASSUME Base, "unleased" \notin Admit
    PROVE  ~ResolutionStep /\ Held("resolution") = {} /\ resolving.pc = "off"
<1>1. resolving.pc = "off" /\ Held("resolution") = {}
  BY BaseParts DEF WritesNoted
<1> QED BY <1>1 DEF ResolutionStep, noteResolution, ResolutionRequest, ResolutionFails,
        ResolutionDone, ResolutionIndexed

\* The step that takes a row off the index.
LEMMA RemovalStep ==
    ASSUME Base, [Next]_vars, "unleased" \notin Admit, lease = "applier", Indexed, index' = NoRow
    PROVE  IndexedObject # Object
<1>1. OpsTyped /\ InboxTyped /\ WorkTyped /\ RowsInHand /\ IndexKnown
  BY BaseParts
<1>2. pass.pc = "off" /\ apply.pc \in {"confirm", "settle", "mark", "release"}
  BY <1>1 DEF WorkTyped, PassType
<1>3. index' # index
  BY DEF Indexed
<1>4. Settle \/ HeadFinds
  <2>1. CASE \E kind \in Kinds : External(kind) \/ noteOwnWrite(kind)
    BY <1>3, <2>1 DEF External, noteOwnWrite
  <2>2. CASE \E m \in Ops : Lose(m) \/ pollOnce(m)
    BY <1>3, <2>2 DEF Lose, pollOnce
  <2>3. CASE \E i \in Ops : retryDue(i) \/ expireIntent(i)
    BY <1>3, <2>3 DEF retryDue, expireIntent
  <2>4. CASE Tick \/ checkDeadLetters \/ checkContinuity
    BY <1>3, <2>4 DEF Tick, checkDeadLetters, checkContinuity
  <2>5. CASE ApplierStep
    BY <1>3, <2>5 DEF ApplierStep, skipInactive, delayProtected, claimForVault, OwnRemoval,
                      Supersede, HeadFails, HeadGone,
                      markApplied, releasePass, schedule
  <2>6. CASE PassStep
    BY <1>2, <1>3, <2>6 DEF PassStep, scopedFinish, beginListing, ListObjects, onBaselineListed,
                            Request, RequestFails, applyRemoteIndexMutation
  <2>7. CASE Crash
    BY <1>3, <2>7 DEF Crash
  <2>8. CASE UNCHANGED vars
    BY <1>3, <2>8 DEF vars
  <2>9. CASE ResolutionStep
    BY <2>9, NoResolving
  <2> QED BY <2>1, <2>2, <2>3, <2>4, <2>5, <2>6, <2>7, <2>8, <2>9 DEF Next
<1>5. CASE Settle
  <2>1. apply.pc = "settle" /\ apply.latest \in Ids
    BY <1>1, <1>5 DEF Settle, WorkTyped, ApplyType, RowsInHand
  <2>2. inbox[apply.latest].op # None
    BY <1>1, <2>1, RowNumbers, SMTT(60) DEF None
  <2>3. Kind(apply.latest) = "Removed"
    BY <1>3, <1>5, <2>2 DEF Settle, Drop, Write, Row, NoRow, None
  <2> QED BY <1>1, <2>1, <2>3 DEF IndexKnown
<1>6. CASE HeadFinds
  BY <1>3, <1>6 DEF HeadFinds, Row, NoRow, None
<1> QED BY <1>4, <1>5, <1>6

\* A late, repeated or reordered removal event takes nothing off the index
\* that the provider still has: applyVault confirms it with a HEAD, and what is
\* written between the HEAD and the index is a newer operation.  A resolution
\* that uploads without the lease may index its object in between.
THEOREM RemovalsReal == "unleased" \notin Admit => (Spec => RemovalIsReal)
<1> SUFFICES ASSUME "unleased" \notin Admit PROVE Spec => RemovalIsReal
  OBVIOUS
<1>1. Base /\ [Next]_vars =>
        [lease = "applier" /\ Indexed /\ index' = NoRow => IndexedObject # Object]_vars
  BY RemovalStep
<1> QED BY <1>1, BaseInit, BaseStep, PTL DEF Spec, RemovalIsReal
=============================================================================
