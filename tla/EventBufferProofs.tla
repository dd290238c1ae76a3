-------------------------- MODULE EventBufferProofs --------------------------
(***************************************************************************)
(* Theorems about EventBuffer, for any number of events and crashes.       *)
(***************************************************************************)
EXTENDS EventBuffer, WellFoundedInduction, TLAPS

Highest(items) ==
  items # <<>> => \A i \in Items(items) : i.sequence <= Last(items).sequence

(* The next number is above every number that is anywhere, and the file    *)
(* that keeps it is ahead of the buffer whenever a delivery may empty the  *)
(* buffer.                                                                 *)
NumberingOK ==
  /\ \A i \in Known : i.sequence < i.event /\ i.event <= emitted
  /\ sequenceFile < emitted
  /\ phase = "executing" => \A i \in Known : i.sequence <= LastSequence
  /\ mutation = "appending" => sequenceFile < Last(file).sequence
  /\ phase = "executing" /\ delivery # "idle" /\ mutation # "appending" =>
       \A i \in Known : i.sequence <= sequenceFile
  /\ Highest(file) /\ Highest(batch)

(* What a step of the delivery or of an append may rely on.                *)
StepOK ==
  /\ mutation = "appending" => phase = "executing" /\ file # <<>>
  /\ mutation = "rewriting" <=> delivery = "rewriting"
  /\ mutation = "rewriting" => file = <<>>
  /\ final => phase = "ended" /\ delivery # "idle"
  /\ phase = "completed" => delivery = "idle" /\ mutation = "free" /\ file = <<>>
  /\ final /\ delivery \in {"sending", "answered"} => file = batch
  /\ delivery \in {"sending", "answered"} => batch # <<>>
  /\ final /\ delivery = "rewriting" => batch = <<>>

(* What an acknowledgement covers was sent, and is stored.                 *)
DeliveryOK ==
  /\ delivery \in {"sending", "answered"} =>
       \A i \in Items(file) : i.sequence <= Last(batch).sequence => i \in Items(batch)
  /\ delivery = "answered" => \A i \in Items(batch) : stored[i.sequence] = i.event

IInv ==
  /\ TypeOK /\ StepOK
  /\ SequenceFollowsEmission /\ NumberingOK
  /\ DeliveryOK

-----------------------------------------------------------------------------
(* Lists of items.                                                         *)

LEMMA ItemsOf ==
  ASSUME NEW s \in Seq(Item)
  PROVE  /\ Items(s) \subseteq Item
         /\ s = <<>> <=> Items(s) = {}
         /\ s # <<>> => Last(s) \in Items(s) /\ Last(s) = s[Len(s)] /\ Len(s) \in DOMAIN s
<1>1. s # <<>> => Len(s) \in DOMAIN s
  OBVIOUS
<1> QED BY <1>1 DEF Items, Last

LEMMA ItemsOfAppend ==
  ASSUME NEW s \in Seq(Item), NEW i \in Item
  PROVE  /\ Append(s, i) \in Seq(Item) /\ Append(s, i) # <<>>
         /\ Items(Append(s, i)) = Items(s) \cup {i} /\ Last(Append(s, i)) = i
<1>1. Append(s, i) \in Seq(Item) /\ Len(Append(s, i)) = Len(s) + 1
  OBVIOUS
<1>2. \A k \in 1..Len(s) + 1 : Append(s, i)[k] = IF k <= Len(s) THEN s[k] ELSE i
  OBVIOUS
<1>3. Items(Append(s, i)) = Items(s) \cup {i}
  <2>1. Items(Append(s, i)) \subseteq Items(s) \cup {i}
    BY <1>1, <1>2 DEF Items
  <2>2. i \in Items(Append(s, i))
    <3>1. Append(s, i)[Len(s) + 1] = i /\ Len(s) + 1 \in DOMAIN Append(s, i)
      BY <1>1, <1>2
    <3> QED BY <3>1 DEF Items
  <2>3. Items(s) \subseteq Items(Append(s, i))
    <3> SUFFICES ASSUME NEW k \in DOMAIN s PROVE s[k] \in Items(Append(s, i))
      BY DEF Items
    <3>1. k \in DOMAIN Append(s, i) /\ Append(s, i)[k] = s[k]
      BY <1>1, <1>2
    <3> QED BY <3>1 DEF Items
  <2> QED BY <2>1, <2>2, <2>3
<1> QED BY <1>1, <1>2, <1>3 DEF Last

LEMMA ItemsOfPrefix ==
  ASSUME NEW s \in Seq(Item), NEW n \in Nat, n <= Len(s)
  PROVE  SubSeq(s, 1, n) \in Seq(Item) /\ Items(SubSeq(s, 1, n)) \subseteq Items(s)
<1>1. /\ SubSeq(s, 1, n) \in Seq(Item) /\ Len(SubSeq(s, 1, n)) = n
      /\ \A k \in 1..n : SubSeq(s, 1, n)[k] = s[k] /\ k \in DOMAIN s
  OBVIOUS
<1> QED BY <1>1 DEF Items

(* Induction over a set of numbers.                                        *)
LEMMA LeastNumber ==
  ASSUME NEW S \in SUBSET Nat, S # {}
  PROVE  \E x \in S : \A y \in S : x <= y
<1>1. IsWellFoundedOn(OpToRel(<, Nat), Nat)
  BY NatLessThanWellFounded
<1>2. PICK x \in S : \A y \in S : ~ (<<y, x>> \in OpToRel(<, Nat))
  BY <1>1, WFMin
<1>3. ASSUME NEW y \in S PROVE x <= y
  <2>1. x \in Nat /\ y \in Nat /\ ~ (y < x)
    BY <1>2 DEF OpToRel
  <2> QED BY <2>1
<1> QED BY <1>3

LEMMA Induction ==
  ASSUME NEW P \in SUBSET Nat, 0 \in P, \A n \in P : n + 1 \in P
  PROVE  P = Nat
<1> SUFFICES ASSUME Nat \ P # {} PROVE FALSE
  OBVIOUS
<1> DEFINE S == Nat \ P
<1>1. S \in SUBSET Nat /\ S # {}
  OBVIOUS
<1>2. PICK x \in S : \A y \in S : x <= y
  <2> HIDE DEF S
  <2> QED BY <1>1, LeastNumber
<1>3. x \in Nat /\ x # 0 /\ x - 1 \in Nat /\ x - 1 < x /\ x \notin P
  OBVIOUS
<1>4. x - 1 \in P
  BY <1>2, <1>3
<1> QED BY <1>3, <1>4

IsKept(f, items, through, n) ==
  f = [k \in 0..n |-> IF k = 0 THEN <<>> ELSE Filtered(f[k - 1], items[k], through)]

LEMMA KeptExists ==
  ASSUME NEW items, NEW through, NEW n \in Nat
  PROVE  \E f : IsKept(f, items, through, n)
<1> DEFINE P == {k \in Nat : \E f : IsKept(f, items, through, k)}
<1>1. 0 \in P
  <2>1. PICK f : f = [i \in 0..0 |-> <<>>]
    OBVIOUS
  <2>2. IsKept(f, items, through, 0)
    BY <2>1 DEF IsKept
  <2> QED BY <2>2
<1>2. ASSUME NEW k \in P PROVE k + 1 \in P
  <2>1. PICK f : IsKept(f, items, through, k)
    OBVIOUS
  <2>2. PICK g : g = [i \in 0..k + 1 |-> IF i <= k THEN f[i] ELSE Filtered(f[k], items[k + 1], through)]
    OBVIOUS
  <2>3. ASSUME NEW i \in 0..k + 1
        PROVE  g[i] = IF i = 0 THEN <<>> ELSE Filtered(g[i - 1], items[i], through)
    <3>1. k \in Nat
      OBVIOUS
    <3>2. CASE i <= k
      <4>1. g[i] = f[i] /\ f[i] = IF i = 0 THEN <<>> ELSE Filtered(f[i - 1], items[i], through)
        BY <2>1, <2>2, <3>1, <3>2 DEF IsKept
      <4>2. i # 0 => g[i - 1] = f[i - 1]
        BY <2>2, <3>1, <3>2
      <4> QED BY <4>1, <4>2
    <3>3. CASE i = k + 1
      BY <2>2, <3>1, <3>3
    <3> QED BY <3>1, <3>2, <3>3
  <2>4. IsKept(g, items, through, k + 1)
    BY <2>2, <2>3 DEF IsKept
  <2> QED BY <2>4
<1> HIDE DEF P
<1>3. P = Nat
  BY <1>1, <1>2, Induction DEF P
<1> QED BY <1>3 DEF P

(* What the rewrite keeps of a list: the items that are not covered, and   *)
(* the last one stays the last.                                            *)
LEMMA NotCoveredFacts ==
  ASSUME NEW items \in Seq(Item), NEW through \in Int
  PROVE  /\ NotCovered(items, through) \in Seq(Item)
         /\ Items(NotCovered(items, through)) = {i \in Items(items) : i.sequence > through}
         /\ Highest(items) => Highest(NotCovered(items, through))
<1> DEFINE f == CHOOSE g : IsKept(g, items, through, Len(items))
           Upto(k) == {items[j] : j \in {h \in 1..k : items[h].sequence > through}}
           P == {k \in Nat : k <= Len(items) => f[k] \in Seq(Item) /\ Items(f[k]) = Upto(k)}
<1>1. Len(items) \in Nat /\ \A k \in 1..Len(items) : items[k] \in Item
  OBVIOUS
<1>2. NotCovered(items, through) = f[Len(items)]
  BY DEF NotCovered, IsKept
<1>3. IsKept(f, items, through, Len(items))
  BY <1>1, KeptExists
<1> HIDE DEF f
<1>4. f[0] = <<>> /\ \A k \in 1..Len(items) : f[k] = Filtered(f[k - 1], items[k], through)
  BY <1>1, <1>3 DEF IsKept
<1>5. 0 \in P
  <2>1. Upto(0) = {} /\ Items(<<>>) = {} /\ <<>> \in Seq(Item)
    BY DEF Items
  <2> QED BY <1>4, <2>1
<1>6. ASSUME NEW k \in P PROVE k + 1 \in P
  <2> SUFFICES ASSUME k + 1 <= Len(items)
               PROVE  f[k + 1] \in Seq(Item) /\ Items(f[k + 1]) = Upto(k + 1)
    OBVIOUS
  <2>1. f[k] \in Seq(Item) /\ Items(f[k]) = Upto(k) /\ k \in Nat
    BY <1>1
  <2>2. f[k + 1] = Filtered(f[k], items[k + 1], through)
    BY <1>1, <1>4, <2>1
  <2>3. items[k + 1] \in Item
    BY <1>1, <2>1
  <2>4. Upto(k + 1) = IF items[k + 1].sequence > through THEN Upto(k) \cup {items[k + 1]}
                                                          ELSE Upto(k)
    BY <2>1
  <2> HIDE DEF Upto
  <2>5. CASE items[k + 1].sequence > through
    BY <2>1, <2>2, <2>3, <2>4, <2>5, ItemsOfAppend DEF Filtered
  <2>6. CASE ~(items[k + 1].sequence > through)
    BY <2>1, <2>2, <2>4, <2>6 DEF Filtered
  <2> QED BY <2>5, <2>6
<1>7. P = Nat
  <2> HIDE DEF P
  <2>1. P \in SUBSET Nat
    BY DEF P
  <2> QED BY <1>5, <1>6, <2>1, Induction
<1>8. \A k \in 0..Len(items) : f[k] \in Seq(Item) /\ Items(f[k]) = Upto(k)
  <2> HIDE DEF Upto
  <2>1. \A k \in P : k <= Len(items) => f[k] \in Seq(Item) /\ Items(f[k]) = Upto(k)
    BY Zenon
  <2> HIDE DEF P
  <2> QED BY <1>1, <1>7, <2>1
<1> HIDE DEF Upto
<1>9. Upto(Len(items)) = {i \in Items(items) : i.sequence > through}
  BY DEF Items, Upto
<1>10. ASSUME Highest(items), f[Len(items)] # <<>> PROVE Highest(f[Len(items)])
  <2>1. f[Len(items)] \in Seq(Item) /\ Items(f[Len(items)]) = Upto(Len(items))
    BY <1>1, <1>8
  <2>2. PICK i \in Items(items) : i.sequence > through
    BY <1>9, <1>10, <2>1, ItemsOf
  <2>3. items # <<>> /\ Last(items) = items[Len(items)] /\ Last(items) \in Item
    BY ItemsOf
  <2>4. Last(items).sequence > through
    <3>1. i.sequence <= Last(items).sequence
      BY <1>10, <2>3 DEF Highest
    <3>2. i \in Item
      BY ItemsOf
    <3>3. i.sequence \in Int /\ Last(items).sequence \in Int
      BY <2>3, <3>2, EventBufferAssumption DEF Item, Sequences0
    <3> QED BY <2>2, <3>1, <3>3
  <2>5. Len(items) \in 1..Len(items) /\ Len(items) - 1 \in 0..Len(items)
    BY <1>1, <2>3
  <2>6. f[Len(items)] = Append(f[Len(items) - 1], Last(items))
    BY <1>4, <2>3, <2>4, <2>5 DEF Filtered
  <2>7. Last(f[Len(items)]) = Last(items)
    BY <1>8, <2>3, <2>5, <2>6, ItemsOfAppend
  <2> QED BY <1>9, <1>10, <2>1, <2>3, <2>7 DEF Highest
<1> QED
  <2>1. Highest(items) => Highest(f[Len(items)])
    BY <1>10 DEF Highest
  <2> QED BY <1>1, <1>2, <1>8, <1>9, <2>1

-----------------------------------------------------------------------------
(* What is known.                                                          *)

LEMMA Numbers ==
  /\ Sequences0 \subseteq Nat /\ Events \subseteq Nat /\ NoEvent \notin Events
  /\ \A i \in Item : i.sequence \in Sequences0 /\ i.event \in Events
                     /\ i.sequence \in Int /\ i.event \in Int
BY EventBufferAssumption DEF Sequences0, Events, NoEvent, Item

LEMMA KnownItems ==
  ASSUME TypeOK
  PROVE  /\ Known \subseteq Item
         /\ \A s \in Sequences0 :
              stored[s] # NoEvent => [sequence |-> s, event |-> stored[s]] \in Known
         /\ Items(file) \subseteq Known /\ Items(batch) \subseteq Known
         /\ \A b \in delayed : Items(b) \subseteq Known
<1> DEFINE D == UNION {Items(b) : b \in delayed}
           R == {i \in Item : stored[i.sequence] = i.event}
<1>1. Items(file) \subseteq Item /\ Items(batch) \subseteq Item
  BY ItemsOf DEF TypeOK
<1>2. D \subseteq Item
  <2>1. \A b \in delayed : Items(b) \subseteq Item
    BY ItemsOf DEF TypeOK
  <2> QED BY <2>1
<1>3. \A b \in delayed : Items(b) \subseteq D
  OBVIOUS
<1>4. R \subseteq Item
  OBVIOUS
<1>5. \A s \in Sequences0 : stored[s] # NoEvent => [sequence |-> s, event |-> stored[s]] \in R
  BY DEF TypeOK, Item
<1>6. Known = Items(file) \cup Items(batch) \cup D \cup R
  BY DEF Known
<1> HIDE DEF D, R
<1> QED BY <1>1, <1>2, <1>3, <1>4, <1>5, <1>6

LEMMA KnownFrom ==
  ASSUME NEW S, Items(file') \subseteq S, Items(batch') \subseteq S,
         \A b \in delayed' : Items(b) \subseteq S,
         \A i \in Item : stored'[i.sequence] = i.event => i \in S
  PROVE  Known' \subseteq S
BY DEF Known, Items

(* A number names one event.                                               *)
LEMMA OneEvent ==
  ASSUME TypeOK, SequenceFollowsEmission,
         NEW i \in Known, NEW j \in Known, i.sequence = j.sequence
  PROVE  i = j
<1>1. i \in Item /\ j \in Item
  BY KnownItems
<1>2. /\ i.sequence \in Int /\ j.sequence \in Int /\ i.event \in Int /\ j.event \in Int
  BY <1>1, Numbers
<1>3. ~(i.sequence < j.sequence) /\ ~(j.sequence < i.sequence)
  BY <1>2
<1>4. ~(i.event < j.event) /\ ~(j.event < i.event)
  BY <1>3 DEF SequenceFollowsEmission
<1>5. i.event = j.event
  BY <1>2, <1>4
<1> QED BY <1>1, <1>5 DEF Item

LEMMA SavedFacts ==
  ASSUME TypeOK, NEW items \in Seq(Item), stored' = Saved(items)
  PROVE  /\ stored' \in [Sequences0 -> Events \cup {NoEvent}]
         /\ \A s \in Sequences0 : stored[s] # NoEvent => stored'[s] = stored[s]
         /\ \A s \in Sequences0 :
              stored'[s] # NoEvent =>
                \/ stored'[s] = stored[s]
                \/ [sequence |-> s, event |-> stored'[s]] \in Items(items)
         /\ \A i \in Items(items) : stored'[i.sequence] # NoEvent
<1> DEFINE New(s) == {n \in DOMAIN items : items[n].sequence = s}
<1>1. /\ stored' = [s \in Sequences0 |->
                      IF stored[s] = NoEvent /\ New(s) # {} THEN items[Min(New(s))].event
                                                           ELSE stored[s]]
  BY DEF Saved
<1>2. ASSUME NEW s, New(s) # {} PROVE Min(New(s)) \in New(s)
  <2>1. New(s) \in SUBSET Nat
    OBVIOUS
  <2> HIDE DEF New
  <2>2. \E x \in New(s) : \A y \in New(s) : x <= y
    BY <1>2, <2>1, LeastNumber
  <2> QED BY <2>2 DEF Min
<1>3. ASSUME NEW s \in Sequences0, New(s) # {}
      PROVE  /\ items[Min(New(s))].event \in Events
             /\ [sequence |-> s, event |-> items[Min(New(s))].event] \in Items(items)
  <2> DEFINE n == Min(New(s))
  <2>1. n \in DOMAIN items /\ items[n].sequence = s
    BY <1>2, <1>3
  <2> HIDE DEF n
  <2>2. items[n] \in Item /\ items[n] \in Items(items)
    BY <2>1 DEF Items
  <2>3. items[n] = [sequence |-> s, event |-> items[n].event]
    BY <2>1, <2>2 DEF Item
  <2> QED BY <2>2, <2>3, Numbers DEF n
<1>4. \A i \in Items(items) : i.sequence \in Sequences0 /\ New(i.sequence) # {}
  BY Numbers DEF Items
<1>5. stored \in [Sequences0 -> Events \cup {NoEvent}]
  BY DEF TypeOK
<1> HIDE DEF New
<1>6. stored' \in [Sequences0 -> Events \cup {NoEvent}]
  BY <1>1, <1>3, <1>5
<1>7. \A s \in Sequences0 :
        /\ stored[s] # NoEvent => stored'[s] = stored[s]
        /\ \/ stored'[s] = stored[s]
           \/ [sequence |-> s, event |-> stored'[s]] \in Items(items)
  BY <1>1, <1>3
<1>8. \A i \in Items(items) : stored'[i.sequence] # NoEvent
  <2> SUFFICES ASSUME NEW i \in Items(items), stored[i.sequence] = NoEvent
               PROVE  stored'[i.sequence] \in Events
    BY <1>1, <1>4, Numbers
  <2>1. i.sequence \in Sequences0 /\ New(i.sequence) # {}
    BY <1>4
  <2>2. items[Min(New(i.sequence))].event \in Events
    BY <1>3, <2>1
  <2> QED BY <1>1, <2>1, <2>2
<1>9. \A s \in Sequences0 :
        /\ stored[s] # NoEvent => stored'[s] = stored[s]
        /\ stored'[s] # NoEvent =>
             \/ stored'[s] = stored[s]
             \/ [sequence |-> s, event |-> stored'[s]] \in Items(items)
  BY <1>7
<1> QED BY <1>6, <1>8, <1>9, Zenon

(* What happens to the numbers and the rows while nothing is appended.     *)
LEMMA RowsGrow ==
  ASSUME TypeOK, SequenceFollowsEmission, NEW items \in Seq(Item), Items(items) \subseteq Known,
         stored' = Saved(items)
  PROVE  /\ stored' \in [Sequences0 -> Events \cup {NoEvent}]
         /\ \A s \in Sequences0 : stored[s] # NoEvent => stored'[s] = stored[s]
         /\ \A i \in Item : stored'[i.sequence] = i.event => i \in Known
         /\ \A i \in Items(items) : stored'[i.sequence] = i.event
<1>1. /\ stored' \in [Sequences0 -> Events \cup {NoEvent}]
      /\ \A s \in Sequences0 : stored[s] # NoEvent => stored'[s] = stored[s]
      /\ \A s \in Sequences0 :
           stored'[s] # NoEvent =>
             \/ stored'[s] = stored[s]
             \/ [sequence |-> s, event |-> stored'[s]] \in Items(items)
      /\ \A i \in Items(items) : stored'[i.sequence] # NoEvent
  BY SavedFacts
<1>2. \A s \in Sequences0 :
        stored'[s] # NoEvent => [sequence |-> s, event |-> stored'[s]] \in Known
  BY <1>1, KnownItems
<1>3. ASSUME NEW i \in Items(items) PROVE stored'[i.sequence] = i.event
  <2>1. i \in Known /\ i.sequence \in Sequences0
    BY KnownItems, Numbers
  <2>2. [sequence |-> i.sequence, event |-> stored'[i.sequence]] \in Known
    BY <1>1, <1>2, <2>1
  <2> QED BY <2>1, <2>2, OneEvent
<1>4. ASSUME NEW i \in Item, stored'[i.sequence] = i.event PROVE i \in Known
  <2>1. i.sequence \in Sequences0 /\ i.event # NoEvent
    BY Numbers
  <2>2. i = [sequence |-> i.sequence, event |-> stored'[i.sequence]]
    BY <1>4 DEF Item
  <2> QED BY <1>2, <1>4, <2>1, <2>2
<1> QED BY <1>1, <1>3, <1>4

LEMMA InitInv == Init => IInv
<1> SUFFICES ASSUME Init PROVE IInv
  OBVIOUS
<1>1. Items(<<>>) = {} /\ <<>> \in Seq(Item)
  BY DEF Items
<1>2. TypeOK
  <2>1. emitted \in 0..MaxEvents /\ crashes \in 0..MaxCrashes
    BY EventBufferAssumption DEF Init
  <2>2. stored \in [Sequences0 -> Events \cup {NoEvent}]
    BY DEF Init
  <2> QED BY <1>1, <2>1, <2>2 DEF Init, TypeOK
<1>3. Known = {}
  BY <1>1, Numbers DEF Init, Known
<1> QED
  BY <1>1, <1>2, <1>3 DEF Init, IInv, StepOK, SequenceFollowsEmission, NumberingOK, Highest,
     DeliveryOK

-----------------------------------------------------------------------------
(* The steps.                                                              *)

LEMMA LastSequenceFacts ==
  ASSUME IInv
  PROVE  /\ LastSequence \in Int /\ sequenceFile \in Int /\ emitted \in Nat
         /\ -1 <= sequenceFile /\ sequenceFile <= LastSequence /\ LastSequence < emitted
         /\ file = <<>> => LastSequence = sequenceFile
         /\ file # <<>> => /\ Last(file) \in Item /\ Last(file) \in Known
                           /\ Last(file).sequence <= LastSequence
                           /\ \/ LastSequence = sequenceFile
                              \/ LastSequence = Last(file).sequence
<1>1. /\ sequenceFile \in Int /\ -1 <= sequenceFile /\ emitted \in Nat /\ emitted \in Int
      /\ sequenceFile < emitted
  BY Numbers, EventBufferAssumption DEF IInv, TypeOK, NumberingOK
<1>2. CASE file = <<>>
  BY <1>1, <1>2 DEF LastSequence, LastPending
<1>3. CASE file # <<>>
  <2>1. Last(file) \in Item /\ Last(file) \in Known
    BY <1>3, ItemsOf, KnownItems DEF IInv, TypeOK
  <2>2. /\ Last(file).sequence \in Int /\ 0 <= Last(file).sequence /\ Last(file).event \in Int
        /\ Last(file).sequence < Last(file).event /\ Last(file).event <= emitted
    BY <2>1, Numbers, EventBufferAssumption DEF IInv, NumberingOK
  <2>3. Last(file).sequence < emitted
    BY <1>1, <2>2
  <2> QED BY <1>1, <1>3, <2>1, <2>2, <2>3 DEF LastSequence, LastPending
<1> QED BY <1>2, <1>3

LEMMA BeginAppendInv == ASSUME IInv, BeginAppend PROVE IInv'
<1> DEFINE new == [sequence |-> LastSequence + 1, event |-> emitted + 1]
<1>1. /\ phase = "executing" /\ mutation = "free" /\ emitted < MaxEvents
      /\ mutation' = "appending" /\ emitted' = emitted + 1 /\ file' = Append(file, new)
      /\ UNCHANGED <<sequenceFile, appended, delivery, final, requested, batch, phase, delayed,
                     stored, crashes>>
  BY DEF BeginAppend, deliveryVars, serverVars
<1>2. new \in Item /\ emitted + 1 \in 0..MaxEvents
  BY <1>1, LastSequenceFacts, EventBufferAssumption DEF Item, Sequences0, Events
<1> HIDE DEF new
<1>3. new.sequence = LastSequence + 1 /\ new.event = emitted + 1
  BY DEF new
<1>4. TypeOK /\ file \in Seq(Item)
  BY DEF IInv, TypeOK
<1>5. /\ file' \in Seq(Item) /\ file' # <<>>
      /\ Items(file') = Items(file) \cup {new} /\ Last(file') = new
  BY <1>1, <1>2, <1>4, ItemsOfAppend
<1>6. Known' \subseteq Known \cup {new}
  <2>1. \A i \in Item : stored'[i.sequence] = i.event => i \in Known
    BY <1>1 DEF Known
  <2> QED BY <1>1, <1>4, <1>5, <2>1, KnownItems, KnownFrom
<1>7. \A i \in Known : /\ i.sequence \in Int /\ i.event \in Int
                       /\ i.sequence < i.event /\ i.event <= emitted
                       /\ i.sequence <= LastSequence
  BY <1>1, <1>4, KnownItems, Numbers DEF IInv, NumberingOK
<1>8. TypeOK'
  BY <1>1, <1>2, <1>5 DEF IInv, TypeOK
<1>9. StepOK'
  BY <1>1, <1>5 DEF IInv, StepOK
<1>10. SequenceFollowsEmission'
  <2> SUFFICES ASSUME NEW i \in Known \cup {new}, NEW j \in Known \cup {new}
               PROVE  i.sequence < j.sequence <=> i.event < j.event
    BY <1>6 DEF SequenceFollowsEmission
  <2>1. CASE i \in Known /\ j \in Known
    BY <2>1 DEF IInv, SequenceFollowsEmission
  <2>2. CASE i = new \/ j = new
    BY <1>3, <1>7, <2>2, LastSequenceFacts
  <2> QED BY <2>1, <2>2
<1>11. NumberingOK'
  <2>1. \A i \in Known' : i.sequence < i.event /\ i.event <= emitted'
    BY <1>1, <1>3, <1>6, <1>7, LastSequenceFacts
  <2>2. sequenceFile' < emitted' /\ sequenceFile' < Last(file').sequence
    BY <1>1, <1>3, <1>5, LastSequenceFacts
  <2>3. LastSequence' = LastSequence + 1
    BY <1>1, <1>3, <1>5, LastSequenceFacts DEF LastSequence, LastPending
  <2>4. \A i \in Known' : i.sequence <= LastSequence'
    BY <1>3, <1>6, <1>7, <2>3, LastSequenceFacts
  <2>5. Highest(file)' /\ Highest(batch)'
    <3>1. \A i \in Items(file') : i.sequence <= Last(file').sequence
      BY <1>3, <1>4, <1>5, <1>7, KnownItems, LastSequenceFacts
    <3> QED BY <1>1, <3>1 DEF IInv, NumberingOK, Highest, Items
  <2> QED BY <1>1, <2>1, <2>2, <2>4, <2>5 DEF NumberingOK
<1>12. DeliveryOK'
  <2>1. delivery \in {"sending", "answered"} => ~(new.sequence <= Last(batch).sequence)
    <3> SUFFICES ASSUME delivery \in {"sending", "answered"}
                 PROVE  ~(new.sequence <= Last(batch).sequence)
      OBVIOUS
    <3>1. Last(batch) \in Known
      BY <1>4, ItemsOf, KnownItems DEF IInv, TypeOK, StepOK
    <3> QED BY <1>3, <1>7, <3>1, LastSequenceFacts
  <2>2. Items(batch') = Items(batch)
    BY <1>1
  <2> QED BY <1>1, <1>5, <2>1, <2>2 DEF IInv, DeliveryOK, Items
<1> QED BY <1>8, <1>9, <1>10, <1>11, <1>12 DEF IInv

LEMMA EndAppendInv == ASSUME IInv, EndAppend PROVE IInv'
<1>1. /\ mutation = "appending" /\ mutation' = "free"
      /\ sequenceFile' = Last(file).sequence /\ appended' = appended \cup {Last(file).event}
      /\ UNCHANGED <<file, emitted, final, batch, phase, delayed, stored, crashes>>
      /\ delivery' = (IF delivery = "idle" THEN "reading" ELSE delivery)
      /\ requested' \in BOOLEAN
  BY DEF EndAppend, serverVars
<1>2. TypeOK /\ phase = "executing" /\ file # <<>> /\ ~final /\ delivery # "rewriting"
  BY <1>1 DEF IInv, StepOK
<1>3. Last(file) \in Items(file) /\ Last(file) \in Item /\ Last(file) \in Known
  BY <1>2, ItemsOf, KnownItems DEF TypeOK
<1>4. LastSequence = Last(file).sequence /\ sequenceFile < Last(file).sequence
  BY <1>1, <1>2, <1>3, LastSequenceFacts, Numbers DEF IInv, NumberingOK
<1>5. Known' = Known
  BY <1>1 DEF Known, Items
<1>6. TypeOK'
  BY <1>1, <1>2, <1>3, Numbers DEF TypeOK
<1>7. StepOK'
  BY <1>1, <1>2 DEF IInv, StepOK
<1>8. SequenceFollowsEmission'
  BY <1>5 DEF IInv, SequenceFollowsEmission
<1>9. NumberingOK'
  <2>1. \A i \in Known : i.sequence <= Last(file).sequence
    BY <1>2, <1>4 DEF IInv, NumberingOK
  <2>2. LastSequence' = Last(file).sequence
    BY <1>1, <1>2, <1>3, Numbers DEF LastSequence, LastPending
  <2>3. Last(file).sequence < emitted
    BY <1>4, LastSequenceFacts
  <2>4. Highest(file)' /\ Highest(batch)'
    BY <1>1 DEF IInv, NumberingOK, Highest, Items
  <2> QED BY <1>1, <1>5, <2>1, <2>2, <2>3, <2>4 DEF IInv, NumberingOK
<1>10. DeliveryOK'
  BY <1>1, <1>2 DEF IInv, DeliveryOK, Items
<1> QED BY <1>6, <1>7, <1>8, <1>9, <1>10 DEF IInv

(* Steps that append nothing.                                              *)
LEMMA QuietInv ==
  ASSUME IInv, TypeOK', StepOK', DeliveryOK', Known' \subseteq Known,
         UNCHANGED <<file, sequenceFile, emitted, appended>>,
         phase' = "executing" => phase = "executing",
         mutation' = "appending" => mutation = "appending",
         phase' = "executing" /\ delivery' # "idle" /\ mutation' # "appending" =>
           delivery # "idle" /\ mutation # "appending",
         Highest(batch')
  PROVE  IInv'
<1>1. SequenceFollowsEmission'
  BY DEF IInv, SequenceFollowsEmission
<1>2. NumberingOK'
  <2>1. LastSequence' = LastSequence
    BY DEF LastSequence, LastPending
  <2>2. Highest(file)' /\ Highest(batch)'
    BY DEF IInv, NumberingOK, Highest, Items
  <2> QED BY <2>1, <2>2 DEF IInv, NumberingOK
<1> QED BY <1>1, <1>2 DEF IInv

LEMMA QuietKnown ==
  ASSUME TypeOK, UNCHANGED file, batch' \in {batch, file, <<>>},
         \A b \in delayed' : b \in delayed \cup {batch},
         \A i \in Item : stored'[i.sequence] = i.event => i \in Known
  PROVE  Known' \subseteq Known
<1>1. Items(<<>>) = {}
  BY DEF Items
<1>2. Items(file') \subseteq Known /\ Items(batch') \subseteq Known
  BY <1>1, KnownItems
<1>3. \A b \in delayed' : Items(b) \subseteq Known
  BY KnownItems
<1> QED BY <1>2, <1>3, KnownFrom

LEMMA RowsUnchanged ==
  ASSUME UNCHANGED stored
  PROVE  /\ \A i \in Item : stored'[i.sequence] = i.event => i \in Known
         /\ \A s \in Sequences0 : stored[s] # NoEvent => stored'[s] = stored[s]
BY DEF Known

LEMMA StutterInv == ASSUME IInv, UNCHANGED vars PROVE IInv'
<1>1. TypeOK' /\ StepOK' /\ DeliveryOK'
  BY DEF IInv, TypeOK, StepOK, DeliveryOK, vars, bufferVars, deliveryVars, serverVars, Items
<1>2. Known' \subseteq Known
  BY DEF Known, vars, bufferVars, deliveryVars, serverVars, Items
<1>3. Highest(batch')
  BY DEF IInv, NumberingOK, vars, deliveryVars
<1> QED BY <1>1, <1>2, <1>3, QuietInv DEF vars, bufferVars, deliveryVars, serverVars

LEMMA EndExecutionInv == ASSUME IInv, EndExecution \/ BeginFinalFlush PROVE IInv'
<1>1. UNCHANGED <<file, sequenceFile, emitted, appended, mutation, batch, delayed, stored, crashes>>
  BY DEF EndExecution, BeginFinalFlush, bufferVars, deliveryVars, serverVars
<1>2. phase' = "ended"
  BY DEF EndExecution, BeginFinalFlush
<1>3. \/ delivery' = delivery /\ final' = final /\ requested' = requested
      \/ delivery = "idle" /\ delivery' = "reading" /\ final' = TRUE /\ requested' = requested
  BY DEF EndExecution, BeginFinalFlush, ReadyForTerminal, deliveryVars
<1>4. TypeOK
  BY DEF IInv
<1>5. TypeOK'
  BY <1>1, <1>3, <1>4, <1>2 DEF TypeOK
<1>6. StepOK'
  BY <1>1, <1>2 DEF EndExecution, BeginFinalFlush, ReadyForTerminal, IInv, StepOK, deliveryVars
<1>7. DeliveryOK'
  BY <1>1, <1>3 DEF IInv, DeliveryOK, Items
<1>8. Known' \subseteq Known
  BY <1>1, <1>4, RowsUnchanged, QuietKnown
<1>9. Highest(batch')
  BY <1>1 DEF IInv, NumberingOK
<1> QED BY <1>1, <1>8, <1>9, <1>2, <1>5, <1>6, <1>7, QuietInv

LEMMA ReadPendingInv == ASSUME IInv, ReadPending PROVE IInv'
<1>1. /\ delivery = "reading" /\ mutation = "free"
      /\ UNCHANGED <<file, sequenceFile, emitted, appended, mutation, delayed, stored, crashes>>
  BY DEF ReadPending, bufferVars, serverVars
<1>2. TypeOK
  BY DEF IInv
<1>3. batch' \in {file, <<>>}
  BY DEF ReadPending, FlushSucceeds
<1>4. Known' \subseteq Known
  BY <1>1, <1>2, <1>3, RowsUnchanged, QuietKnown
<1>5. Highest(batch')
  BY <1>3 DEF IInv, NumberingOK, Highest
<1>6. CASE file = <<>>
  <2>1. /\ delivery' \in {"reading", "idle"} /\ final' = FALSE /\ batch' = <<>>
        /\ final => phase' = "completed" /\ delivery' = "idle"
        /\ ~final => phase' = phase
        /\ requested' \in BOOLEAN
    BY <1>2, <1>6 DEF ReadPending, FlushSucceeds, TypeOK
  <2>2. TypeOK'
    <3>1. <<>> \in Seq(Item) /\ phase' \in {"executing", "ended", "completed"}
      BY <1>2, <2>1 DEF TypeOK
    <3> QED BY <1>1, <1>2, <2>1, <3>1 DEF TypeOK
  <2>3. StepOK'
    BY <1>1, <1>2, <1>6, <2>1 DEF IInv, StepOK, TypeOK
  <2>4. DeliveryOK'
    BY <2>1 DEF DeliveryOK
  <2>5. phase' = "executing" => phase = "executing"
    BY <1>2, <2>1 DEF TypeOK
  <2> QED BY <1>1, <1>4, <1>5, <2>2, <2>3, <2>4, <2>5, QuietInv
<1>7. CASE file # <<>>
  <2>1. delivery' = "sending" /\ batch' = file /\ UNCHANGED <<final, requested, phase>>
    BY <1>7 DEF ReadPending
  <2>2. TypeOK' /\ StepOK'
    BY <1>1, <1>2, <1>7, <2>1 DEF IInv, TypeOK, StepOK
  <2>3. DeliveryOK'
    BY <1>1, <2>1 DEF DeliveryOK
  <2> QED BY <1>1, <1>4, <1>5, <2>1, <2>2, <2>3, QuietInv
<1> QED BY <1>6, <1>7

LEMMA EmptyHighest == Highest(<<>>)
BY DEF Highest

LEMMA FlushFailsInv == ASSUME IInv, FlushFails PROVE IInv'
<1>1. /\ delivery \in {"sending", "answered"}
      /\ delivery' = "idle" /\ final' = FALSE /\ batch' = <<>>
      /\ UNCHANGED <<file, sequenceFile, emitted, appended, mutation, requested, phase, stored,
                     crashes>>
      /\ \A b \in delayed' : b \in delayed \cup {batch}
  BY DEF FlushFails, bufferVars
<1>2. TypeOK
  BY DEF IInv
<1>3. mutation # "rewriting" /\ phase # "completed"
  BY <1>1 DEF IInv, StepOK
<1>4. Known' \subseteq Known
  BY <1>1, <1>2, <1>3, RowsUnchanged, QuietKnown
<1>5. TypeOK'
  <2>1. <<>> \in Seq(Item) /\ batch \in Seq(Item)
    BY <1>2 DEF TypeOK
  <2> QED BY <1>1, <1>2, <2>1 DEF TypeOK
<1>6. StepOK'
  BY <1>1, <1>3 DEF IInv, StepOK
<1>7. DeliveryOK'
  BY <1>1 DEF DeliveryOK
<1> QED BY <1>1, <1>4, <1>5, <1>6, <1>7, EmptyHighest, QuietInv

-----------------------------------------------------------------------------
(* Rows are written.                                                       *)

LEMMA AnswerInv == ASSUME IInv, Answer PROVE IInv'
<1>1. /\ delivery = "sending" /\ stored' = Saved(batch) /\ delivery' = "answered"
      /\ UNCHANGED <<file, sequenceFile, emitted, appended, mutation, final, requested, batch,
                     phase, delayed, crashes>>
  BY DEF Answer, bufferVars
<1>2. TypeOK /\ SequenceFollowsEmission /\ mutation # "rewriting"
  BY <1>1 DEF IInv, StepOK
<1>3. /\ stored' \in [Sequences0 -> Events \cup {NoEvent}]
      /\ \A s \in Sequences0 : stored[s] # NoEvent => stored'[s] = stored[s]
      /\ \A i \in Item : stored'[i.sequence] = i.event => i \in Known
      /\ \A i \in Items(batch) : stored'[i.sequence] = i.event
  BY <1>1, <1>2, RowsGrow, KnownItems DEF TypeOK
<1>4. Known' \subseteq Known
  BY <1>1, <1>2, <1>3, QuietKnown
<1>5. TypeOK' /\ StepOK'
  BY <1>1, <1>2, <1>3 DEF IInv, TypeOK, StepOK
<1>6. DeliveryOK'
  BY <1>1, <1>3 DEF IInv, DeliveryOK, Items
<1>7. Highest(batch')
  BY <1>1 DEF IInv, NumberingOK
<1> QED BY <1>1, <1>4, <1>5, <1>6, <1>7, QuietInv

LEMMA PartInv ==
  ASSUME IInv, NEW b \in delayed \cup {batch}, NEW n \in Nat, n <= Len(b),
         stored' = Saved(SubSeq(b, 1, n)), delayed' \subseteq delayed,
         UNCHANGED <<bufferVars, deliveryVars, phase, crashes>>
  PROVE  IInv'
<1>1. UNCHANGED <<file, sequenceFile, emitted, appended, mutation, delivery, final, requested,
                  batch, phase, crashes>>
  BY DEF bufferVars, deliveryVars
<1>2. TypeOK /\ SequenceFollowsEmission /\ b \in Seq(Item)
  BY DEF IInv, TypeOK
<1>3. SubSeq(b, 1, n) \in Seq(Item) /\ Items(SubSeq(b, 1, n)) \subseteq Known
  BY <1>2, ItemsOfPrefix, KnownItems
<1>4. /\ stored' \in [Sequences0 -> Events \cup {NoEvent}]
      /\ \A s \in Sequences0 : stored[s] # NoEvent => stored'[s] = stored[s]
      /\ \A i \in Item : stored'[i.sequence] = i.event => i \in Known
  BY <1>2, <1>3, RowsGrow
<1>5. Known' \subseteq Known
  BY <1>1, <1>2, <1>4, QuietKnown
<1>6. TypeOK' /\ StepOK'
  BY <1>1, <1>2, <1>4 DEF IInv, TypeOK, StepOK
<1>7. DeliveryOK'
  <2>1. delivery = "answered" => \A i \in Items(batch) : stored'[i.sequence] = i.event
    BY <1>2, <1>4, ItemsOf, Numbers DEF IInv, TypeOK, DeliveryOK
  <2> QED BY <1>1, <2>1 DEF IInv, DeliveryOK, Items
<1>8. Highest(batch')
  BY <1>1 DEF IInv, NumberingOK
<1> QED BY <1>1, <1>5, <1>6, <1>7, <1>8, QuietInv

LEMMA SavePartInv == ASSUME IInv, NEW n \in Events, SavePart(n) PROVE IInv'
<1>1. n \in Nat /\ n <= Len(batch)
  BY Numbers DEF SavePart, IInv, TypeOK
<1> QED BY <1>1, PartInv DEF SavePart

LEMMA LateInv ==
  ASSUME IInv, NEW b \in delayed, NEW n \in 0..MaxEvents, Late(b, n)
  PROVE  IInv'
<1>1. n \in Nat /\ n <= Len(b) /\ delayed' \subseteq delayed
  BY EventBufferAssumption DEF Late
<1> QED BY <1>1, PartInv DEF Late

-----------------------------------------------------------------------------
(* The rewrite.                                                            *)

LEMMA BeginRewriteFacts ==
  ASSUME IInv, BeginRewrite
  PROVE  /\ batch' \in Seq(Item)
         /\ Items(batch') = {i \in Items(file) : i.sequence > Last(batch).sequence}
         /\ Highest(batch')
         /\ \A i \in Items(file) : i \in Items(batch') \/ stored[i.sequence] = i.event
         /\ final => batch' = <<>>
<1>1. delivery = "answered" /\ batch' = NotCovered(file, Last(batch).sequence)
  BY DEF BeginRewrite, Remaining
<1>2. file \in Seq(Item) /\ batch \in Seq(Item) /\ batch # <<>>
  BY <1>1 DEF IInv, TypeOK, StepOK
<1>3. Last(batch).sequence \in Int
  BY <1>2, ItemsOf, Numbers
<1>4. /\ batch' \in Seq(Item) /\ Highest(batch')
      /\ Items(batch') = {i \in Items(file) : i.sequence > Last(batch).sequence}
  BY <1>1, <1>2, <1>3, NotCoveredFacts DEF IInv, NumberingOK
<1>5. ASSUME NEW i \in Items(file), i \notin Items(batch') PROVE stored[i.sequence] = i.event
  <2>1. i.sequence <= Last(batch).sequence
    BY <1>2, <1>3, <1>4, <1>5, ItemsOf, Numbers
  <2> QED BY <1>1, <2>1 DEF IInv, DeliveryOK
<1>6. ASSUME final PROVE batch' = <<>>
  <2>1. file = batch
    BY <1>1, <1>6 DEF IInv, StepOK
  <2>2. \A i \in Items(file) : i.sequence <= Last(batch).sequence /\ i.sequence \in Int
    BY <1>2, <2>1, ItemsOf, Numbers DEF IInv, NumberingOK, Highest
  <2>3. Items(batch') = {}
    BY <1>3, <1>4, <2>2
  <2> QED BY <1>4, <2>3, ItemsOf
<1> QED BY <1>4, <1>5, <1>6

LEMMA BeginRewriteInv == ASSUME IInv, BeginRewrite PROVE IInv'
<1>1. /\ delivery = "answered" /\ mutation = "free"
      /\ delivery' = "rewriting" /\ mutation' = "rewriting" /\ file' = <<>>
      /\ UNCHANGED <<sequenceFile, emitted, appended, final, requested, phase, delayed, stored,
                     crashes>>
  BY DEF BeginRewrite, serverVars
<1>2. TypeOK /\ Items(<<>>) = {}
  BY DEF IInv, Items
<1>3. /\ batch' \in Seq(Item) /\ Highest(batch')
      /\ Items(batch') = {i \in Items(file) : i.sequence > Last(batch).sequence}
      /\ \A i \in Items(file) : i \in Items(batch') \/ stored[i.sequence] = i.event
      /\ final => batch' = <<>>
  BY BeginRewriteFacts
<1>4. Known' \subseteq Known
  <2>1. Items(file') \subseteq Known /\ Items(batch') \subseteq Known
    BY <1>1, <1>2, <1>3, KnownItems
  <2> QED BY <1>1, <1>2, <2>1, KnownItems, RowsUnchanged, KnownFrom
<1>5. TypeOK'
  BY <1>1, <1>2, <1>3 DEF TypeOK
<1>6. StepOK'
  BY <1>1, <1>3 DEF IInv, StepOK
<1>7. SequenceFollowsEmission'
  BY <1>4 DEF IInv, SequenceFollowsEmission
<1>8. NumberingOK'
  <2>1. LastSequence' = sequenceFile
    BY <1>1, <1>2, LastSequenceFacts DEF LastSequence, LastPending
  <2>2. Highest(file)' /\ Highest(batch)'
    BY <1>1, <1>2, <1>3, EmptyHighest DEF Highest, Items
  <2> QED BY <1>1, <1>4, <2>1, <2>2 DEF IInv, NumberingOK
<1>9. DeliveryOK'
  BY <1>1 DEF DeliveryOK
<1> QED BY <1>5, <1>6, <1>7, <1>8, <1>9 DEF IInv

LEMMA EndRewriteInv == ASSUME IInv, EndRewrite PROVE IInv'
<1>1. /\ delivery = "rewriting" /\ mutation' = "free" /\ file' = batch
      /\ delivery' \in {"reading", "idle"} /\ final' = FALSE /\ batch' = <<>>
      /\ final => phase' = "completed" /\ delivery' = "idle"
      /\ ~final => phase' = phase
      /\ requested' \in BOOLEAN
      /\ UNCHANGED <<sequenceFile, emitted, appended, delayed, stored, crashes>>
  BY DEF EndRewrite, FlushSucceeds, IInv, TypeOK, serverVars
<1>2. TypeOK /\ Items(<<>>) = {} /\ file = <<>> /\ mutation = "rewriting"
  BY <1>1 DEF IInv, StepOK, Items
<1>3. Known' \subseteq Known
  <2>1. Items(file') \subseteq Known /\ Items(batch') \subseteq Known
    BY <1>1, <1>2, KnownItems
  <2> QED BY <1>1, <1>2, <2>1, KnownItems, RowsUnchanged, KnownFrom
<1>4. TypeOK'
  BY <1>1, <1>2 DEF TypeOK
<1>5. StepOK'
  BY <1>1, <1>2 DEF IInv, StepOK, TypeOK
<1>6. SequenceFollowsEmission'
  BY <1>3 DEF IInv, SequenceFollowsEmission
<1>7. NumberingOK'
  <2>1. phase' = "executing" => phase = "executing"
    BY <1>1, <1>2 DEF TypeOK
  <2>2. phase = "executing" => \A i \in Known : i.sequence <= sequenceFile
    BY <1>1, <1>2 DEF IInv, NumberingOK
  <2>3. sequenceFile \in Int /\ LastSequence' \in Int /\ sequenceFile <= LastSequence'
    <3>1. file' # <<>> => Last(file').sequence \in Int
      BY <1>1, <1>2, ItemsOf, Numbers DEF TypeOK
    <3>2. sequenceFile \in Int /\ -1 <= sequenceFile /\ sequenceFile' = sequenceFile
      BY <1>1, <1>2, LastSequenceFacts
    <3> QED BY <3>1, <3>2 DEF LastSequence, LastPending
  <2>4. phase = "executing" => \A i \in Known : i.sequence <= LastSequence'
    BY <1>2, <2>2, <2>3, KnownItems, Numbers
  <2>5. Highest(file)' /\ Highest(batch)'
    BY <1>1, EmptyHighest DEF IInv, NumberingOK, Highest, Items
  <2> QED BY <1>1, <1>2, <1>3, <2>1, <2>2, <2>4, <2>5 DEF IInv, NumberingOK
<1>8. DeliveryOK'
  BY <1>1 DEF DeliveryOK
<1> QED BY <1>4, <1>5, <1>6, <1>7, <1>8 DEF IInv

LEMMA CrashInv == ASSUME IInv, Crash PROVE IInv'
<1>1. /\ crashes < MaxCrashes /\ phase # "completed" /\ crashes' = crashes + 1
      /\ mutation' = "free" /\ delivery' = "idle" /\ final' = FALSE /\ requested' = FALSE
      /\ batch' = <<>> /\ phase' \in {phase, "ended"}
      /\ UNCHANGED <<file, sequenceFile, emitted, appended, stored>>
      /\ \A b \in delayed' : b \in delayed \cup {batch}
  BY DEF Crash
<1>2. TypeOK
  BY DEF IInv
<1>3. crashes' \in 0..MaxCrashes
  BY <1>1, <1>2, EventBufferAssumption DEF TypeOK
<1>4. Known' \subseteq Known
  BY <1>1, <1>2, RowsUnchanged, QuietKnown
<1>5. TypeOK'
  <2>1. <<>> \in Seq(Item) /\ batch \in Seq(Item)
    BY <1>2 DEF TypeOK
  <2> QED BY <1>1, <1>2, <1>3, <2>1 DEF TypeOK
<1>6. StepOK'
  BY <1>1 DEF IInv, StepOK
<1>7. DeliveryOK'
  BY <1>1 DEF DeliveryOK
<1> QED BY <1>1, <1>3, <1>4, <1>5, <1>6, <1>7, EmptyHighest, QuietInv

-----------------------------------------------------------------------------
(* Nothing is lost but by a crash inside a rewrite.                        *)

LEMMA QuietKept ==
  ASSUME IInv, NEW e \in Events, Kept(e), UNCHANGED file,
         mutation = "rewriting" => mutation' = "rewriting" /\ batch' = batch,
         \A s \in Sequences0 : stored[s] # NoEvent => stored'[s] = stored[s]
  PROVE  Kept(e)'
BY Numbers DEF Kept, Items

LEMMA AppendKeeps ==
  ASSUME IInv, NEW e \in Events, Kept(e), BeginAppend
  PROVE  Kept(e)'
<1> DEFINE new == [sequence |-> LastSequence + 1, event |-> emitted + 1]
<1>1. /\ mutation = "free" /\ emitted < MaxEvents /\ file' = Append(file, new)
      /\ UNCHANGED stored
  BY DEF BeginAppend, serverVars
<1>2. new \in Item
  BY <1>1, LastSequenceFacts, EventBufferAssumption DEF Item, Sequences0, Events
<1>3. file \in Seq(Item)
  BY DEF IInv, TypeOK
<1> HIDE DEF new
<1>4. Items(file') = Items(file) \cup {new}
  BY <1>1, <1>2, <1>3, ItemsOfAppend
<1> QED BY <1>1, <1>4 DEF Kept, Items

LEMMA RewriteKeeps ==
  ASSUME IInv, NEW e \in Events, Kept(e), BeginRewrite \/ EndRewrite
  PROVE  Kept(e)'
<1>1. CASE EndRewrite
  <2>1. mutation = "rewriting" /\ file = <<>> /\ file' = batch /\ UNCHANGED stored
    BY <1>1 DEF EndRewrite, IInv, StepOK, serverVars
  <2> QED BY <2>1 DEF Kept, Items
<1>2. CASE BeginRewrite /\ \E s \in Sequences0 : stored[s] = e
  BY <1>2 DEF BeginRewrite, Kept, serverVars
<1>3. CASE BeginRewrite /\ \E i \in Items(file) : i.event = e
  <2>1. PICK i \in Items(file) : i.event = e
    BY <1>3
  <2>2. i.sequence \in Sequences0
    BY ItemsOf, Numbers DEF IInv, TypeOK
  <2>3. (i \in Items(batch')) \/ stored[i.sequence] = i.event
    BY <1>3, BeginRewriteFacts
  <2>4. mutation' = "rewriting" /\ UNCHANGED stored
    BY <1>3 DEF BeginRewrite, serverVars
  <2> QED BY <2>1, <2>2, <2>3, <2>4 DEF Kept, Items
<1>4. BeginRewrite => mutation # "rewriting"
  BY DEF BeginRewrite
<1> QED BY <1>1, <1>2, <1>3, <1>4 DEF Kept

LEMMA PartKeeps ==
  ASSUME IInv, NEW e \in Events, Kept(e), NEW b \in delayed \cup {batch},
         NEW n \in Nat, n <= Len(b), stored' = Saved(SubSeq(b, 1, n)),
         UNCHANGED <<bufferVars, batch>>
  PROVE  Kept(e)'
<1>1. TypeOK /\ b \in Seq(Item)
  BY DEF IInv, TypeOK
<1>2. SubSeq(b, 1, n) \in Seq(Item)
  BY <1>1, ItemsOfPrefix
<1> QED BY <1>1, <1>2, SavedFacts, QuietKept DEF bufferVars

LEMMA StepKeeps ==
  ASSUME IInv, [Next]_vars, NEW e \in Events, Kept(e)
  PROVE  Kept(e)' \/ (mutation = "rewriting" /\ crashes' # crashes)
<1>1. CASE BeginAppend
  BY <1>1, AppendKeeps
<1>2. CASE EndAppend \/ EndExecution \/ BeginFinalFlush \/ ReadPending
  BY <1>2, QuietKept DEF EndAppend, EndExecution, BeginFinalFlush, ReadPending, FlushSucceeds,
     bufferVars, deliveryVars, serverVars
<1>3. CASE FlushFails
  <2>1. mutation # "rewriting"
    BY <1>3 DEF FlushFails, IInv, StepOK
  <2> QED BY <1>3, <2>1, QuietKept DEF FlushFails, bufferVars
<1>4. CASE BeginRewrite \/ EndRewrite
  BY <1>4, RewriteKeeps
<1>5. CASE Answer
  <2>1. TypeOK /\ batch \in Seq(Item) /\ stored' = Saved(batch)
    BY <1>5 DEF Answer, IInv, TypeOK
  <2>2. \A s \in Sequences0 : stored[s] # NoEvent => stored'[s] = stored[s]
    BY <2>1, SavedFacts
  <2> QED BY <1>5, <2>2, QuietKept DEF Answer, bufferVars
<1>6. CASE \E n \in Events : SavePart(n)
  <2>1. PICK n \in Events : SavePart(n)
    BY <1>6
  <2>2. n \in Nat /\ n <= Len(batch)
    BY <2>1, Numbers DEF SavePart, IInv, TypeOK
  <2> QED BY <2>1, <2>2, PartKeeps DEF SavePart, deliveryVars
<1>7. CASE \E b \in delayed, n \in 0..MaxEvents : Late(b, n)
  <2>1. PICK b \in delayed, n \in 0..MaxEvents : Late(b, n)
    BY <1>7
  <2> QED BY <2>1, PartKeeps, EventBufferAssumption DEF Late, deliveryVars
<1>8. CASE Crash
  <2>1. CASE mutation = "rewriting"
    BY <1>8, <2>1 DEF Crash, IInv, TypeOK
  <2>2. CASE mutation # "rewriting"
    BY <1>8, <2>2, QuietKept DEF Crash
  <2> QED BY <2>1, <2>2
<1>9. CASE UNCHANGED vars
  BY <1>9, QuietKept DEF vars, bufferVars, deliveryVars, serverVars
<1> QED BY <1>1, <1>2, <1>3, <1>4, <1>5, <1>6, <1>7, <1>8, <1>9 DEF Next

LEMMA NextInv == IInv /\ [Next]_vars => IInv'
<1> SUFFICES ASSUME IInv, [Next]_vars PROVE IInv'
  OBVIOUS
<1>1. CASE BeginAppend \/ EndAppend
  BY <1>1, BeginAppendInv, EndAppendInv
<1>2. CASE EndExecution \/ BeginFinalFlush \/ ReadPending \/ FlushFails
  BY <1>2, EndExecutionInv, ReadPendingInv, FlushFailsInv
<1>3. CASE BeginRewrite \/ EndRewrite
  BY <1>3, BeginRewriteInv, EndRewriteInv
<1>4. CASE Answer \/ \E n \in Events : SavePart(n)
  BY <1>4, AnswerInv, SavePartInv
<1>5. CASE \E b \in delayed, n \in 0..MaxEvents : Late(b, n)
  BY <1>5, LateInv
<1>6. CASE Crash
  BY <1>6, CrashInv
<1>7. CASE UNCHANGED vars
  BY <1>7, StutterInv
<1> QED BY <1>1, <1>2, <1>3, <1>4, <1>5, <1>6, <1>7 DEF Next

-----------------------------------------------------------------------------

(* The buffer, the sequence file, the requests under way and the rows of   *)
(* the server agree, wherever the runner stops.                            *)
THEOREM Inductive == Spec => []IInv
<1>1. Init => IInv
  BY InitInv
<1>2. IInv /\ [Next]_vars => IInv'
  BY NextInv
<1> QED BY <1>1, <1>2, PTL DEF Spec

(* Every state has the types the code declares.                            *)
THEOREM TypeCorrect == Spec => []TypeOK
<1>1. IInv => TypeOK
  BY DEF IInv
<1> QED BY <1>1, Inductive, PTL

(* append() never gives a number twice, and gives them in the order of     *)
(* emission: no row of runner_events can hide an event.                    *)
THEOREM NumbersAreOrdered == Spec => []SequenceFollowsEmission
<1>1. IInv => SequenceFollowsEmission
  BY DEF IInv
<1> QED BY <1>1, Inductive, PTL

(* flush() loses no appended event, whatever is appended, answered or lost *)
(* meanwhile, unless the process stops inside the rewrite.                 *)
THEOREM RewriteErasesAlone == Spec => OnlyRewriteCrashErases
<1>1. IInv /\ [Next]_vars =>
        \A e \in appended :
          Kept(e) => Kept(e)' \/ (mutation = "rewriting" /\ crashes' # crashes)
  BY StepKeeps DEF IInv, TypeOK
<1>2. IInv /\ [Next]_vars =>
        [\A e \in appended :
           Kept(e) => Kept(e)' \/ (mutation = "rewriting" /\ crashes' # crashes)]_vars
  BY <1>1
<1> QED BY <1>2, Inductive, PTL DEF Spec, OnlyRewriteCrashErases

NoLoss == crashes = 0 => \A e \in appended : Kept(e)

(* A completed attempt has its events on the server (deliver, worker.ts),  *)
(* if the process did not crash on the way.                                *)
THEOREM CompletedHasEvents == Spec => []CompletedAfterEvents
<1>1. Init => NoLoss
  BY DEF Init, NoLoss
<1>2. IInv /\ NoLoss /\ [Next]_vars => NoLoss'
  <2> SUFFICES ASSUME IInv, NoLoss, [Next]_vars, crashes' = 0, NEW e \in appended'
               PROVE  Kept(e)'
    BY DEF NoLoss
  <2>1. crashes = 0 /\ appended \subseteq Events
    <3>1. crashes' = crashes \/ crashes' = crashes + 1
      BY DEF Next, BeginAppend, EndAppend, EndExecution, BeginFinalFlush, ReadPending, FlushFails,
         BeginRewrite, EndRewrite, Answer, SavePart, Late, Crash, vars
    <3> QED BY <3>1 DEF IInv, TypeOK
  <2>2. CASE e \in appended
    BY <2>1, <2>2, StepKeeps DEF NoLoss
  <2>3. CASE e \notin appended
    <3>1. EndAppend /\ e = Last(file).event
      BY <2>3 DEF Next, BeginAppend, EndAppend, EndExecution, BeginFinalFlush, ReadPending,
         FlushFails, BeginRewrite, EndRewrite, Answer, SavePart, Late, Crash, vars, bufferVars
    <3>2. Last(file) \in Items(file)
      BY <3>1, ItemsOf DEF EndAppend, IInv, StepOK, TypeOK
    <3> QED BY <3>1, <3>2 DEF EndAppend, Kept, Items
  <2> QED BY <2>2, <2>3
<1>3. IInv /\ NoLoss => CompletedAfterEvents
  BY DEF IInv, StepOK, NoLoss, CompletedAfterEvents, Kept, Items
<1> QED BY <1>1, <1>2, <1>3, Inductive, PTL DEF Spec
=============================================================================
