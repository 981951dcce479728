------------------------------ MODULE DemoProofs ------------------------------
(***************************************************************************)
(* Proofs about module Demo, for any size of the storage.                  *)
(***************************************************************************)
EXTENDS Demo, FiniteSetTheorems, TLAPS

\* The current del has taken its key out of the storage, not yet out of arr.
Deleted == waiting /\ call.op = "del" /\ phase # "called"

Beyond == \A k \in DOMAIN dict : k < call.key

\* Where a call is, and what it was made with.
CallsOK ==
    /\ waiting =>
        /\ pc \in {"fill", "work"} /\ i < InitSize
        /\ call.op \in {"set", "del", "get", "getRange"}
        /\ call.key \in AllKeys
        /\ call.op \in {"del", "get"} => call.key \in arr /\ pc = "work"
        /\ call.op = "getRange" => call.key \in LeftEnds
        /\ pc = "fill" => call.op = "set" /\ call.key = i
    /\ ~waiting => phase = "idle"
    /\ phase = "done" => call.op \in {"set", "del"}
    /\ waiting /\ phase = "idle" /\ response = Thrown => call.op = "getRange" /\ Beyond
    /\ pc = "aborted" => ~waiting /\ call.op = "getRange" /\ call.key \in LeftEnds /\ Beyond

\* Every key in arr is in the storage, but for the one being deleted.
ArrInDict == \A k \in arr : k \in DOMAIN dict \/ (Deleted /\ k = call.key)

\* The first loop has set all keys below i.
Filled ==
    pc = "fill" =>
        /\ \A k \in AllKeys : k < i => k \in DOMAIN dict
        /\ waiting /\ phase # "called" => i \in DOMAIN dict
        /\ del_cnt = 0

MissingKeys == AllKeys \ DOMAIN dict

\* Afterwards only the dels that were counted have removed one key each.
FewMissing ==
    pc # "fill" =>
        /\ Cardinality(MissingKeys) <= del_cnt + (IF Deleted THEN 1 ELSE 0)
        /\ del_cnt <= i

Inv == TypeOK /\ CallsOK /\ ArrInDict /\ Filled /\ FewMissing

Calling == Fill \/ SetElement \/ DelElement \/ GetElement \/ RangeQuery

-------------------------------------------------------------------------------
\* The set of missing keys is finite, and loses or gains one key at a time.
LEMMA MissingFinite == ASSUME TypeOK PROVE IsFiniteSet(MissingKeys) /\ Cardinality(MissingKeys) \in Nat
<1>1. IsFiniteSet(AllKeys)
  BY SizesAssumption, FS_Interval DEF AllKeys
<1>2. MissingKeys \in SUBSET AllKeys
  BY DEF MissingKeys
<1>3. IsFiniteSet(MissingKeys)
  BY <1>1, <1>2, FS_Subset
<1>4. QED
  BY <1>3, FS_CardinalityType

LEMMA InitInv == Init => Inv
<1> SUFFICES ASSUME Init PROVE Inv
  OBVIOUS
<1> USE DEF Init
<1>1. TypeOK
  <2>1. DOMAIN dict = {} /\ phase = "idle"
    BY DEF Storage!Init
  <2>2. pc = "fill" /\ waiting = FALSE /\ i = 0 /\ arr = {} /\ del_cnt = 0
    OBVIOUS
  <2>3. 0 \in 0 .. InitSize
    BY SizesAssumption
  <2>4. QED
    BY <2>1, <2>2, <2>3, Zenon DEF TypeOK
<1>2. CallsOK /\ ArrInDict
  BY DEF CallsOK, ArrInDict, Deleted, Storage!Init
<1>3. Filled /\ FewMissing
  BY SizesAssumption DEF Filled, FewMissing, AllKeys
<1>4. QED
  BY <1>1, <1>2, <1>3 DEF Inv

\* What making a call changes, whichever call it is.
LEMMA CallMade ==
    ASSUME Inv, Calling
    PROVE  /\ ~waiting /\ i < InitSize /\ pc \in {"fill", "work"}
           /\ waiting' = TRUE /\ phase = "idle" /\ phase' = "called"
           /\ UNCHANGED <<dict, pc, i, arr, del_cnt>>
           /\ call'.op \in {"set", "del", "get", "getRange"}
           /\ call'.key \in AllKeys
           /\ call'.op \in {"del", "get"} => call'.key \in arr /\ pc = "work"
           /\ call'.op = "getRange" => call'.key \in LeftEnds
           /\ pc = "fill" => call'.op = "set" /\ call'.key = i
<1> USE DEF MakeCall, Storage!Invoke
<1>1. CASE Fill
  <2>1. i \in AllKeys
    BY <1>1, SizesAssumption DEF Fill, Inv, TypeOK, AllKeys
  <2>2. call'.op = "set" /\ call'.key = i
    BY <1>1 DEF Fill, SetCall
  <2>3. QED
    BY <1>1, <2>1, <2>2 DEF Fill
<1>2. CASE SetElement
  BY <1>2 DEF SetElement, SetCall
<1>3. CASE DelElement
  BY <1>3 DEF DelElement, DelCall, Known
<1>4. CASE GetElement
  BY <1>4 DEF GetElement, GetCall, Known
<1>5. CASE RangeQuery
  <2>1. LeftEnds \subseteq AllKeys
    BY SizesAssumption DEF LeftEnds, AllKeys
  <2>2. QED
    BY <1>5, <2>1 DEF RangeQuery, RangeCall
<1>6. QED
  BY <1>1, <1>2, <1>3, <1>4, <1>5 DEF Calling

LEMMA CallingInv == ASSUME Inv, Calling PROVE Inv'
<1>1. TypeOK'
  BY CallMade DEF Inv, TypeOK
<1>2. CallsOK'
  BY CallMade DEF Inv, CallsOK, LeftEnds, AllKeys
<1>3. ArrInDict'
  BY CallMade DEF Inv, ArrInDict, Deleted
<1>4. Filled'
  BY CallMade DEF Inv, Filled, AllKeys
<1>5. FewMissing'
  <2>1. ~Deleted /\ ~Deleted'
    BY CallMade DEF Deleted
  <2>2. MissingKeys' = MissingKeys
    BY CallMade DEF MissingKeys, AllKeys
  <2>3. QED
    BY <2>1, <2>2, CallMade DEF Inv, FewMissing
<1>6. QED
  BY <1>1, <1>2, <1>3, <1>4, <1>5 DEF Inv

\* The step at which a set or a del takes effect.
LEMMA EffectInv ==
    ASSUME Inv, StorageStep, Storage!Set \/ Storage!Del
    PROVE  Inv'
<1> USE DEF StorageStep
<1>1. /\ UNCHANGED <<pc, waiting, i, arr, del_cnt, call>>
      /\ phase = "called" /\ phase' = "done" /\ waiting
      /\ call.op \in {"set", "del"} /\ call.key \in AllKeys
  BY DEF Storage!Set, Storage!Del, Inv, TypeOK, CallsOK
<1>2. /\ call.op = "set" => DOMAIN dict' = DOMAIN dict \cup {call.key}
      /\ call.op = "del" => DOMAIN dict' = DOMAIN dict \ {call.key}
  BY DEF Storage!Set, Storage!Del
<1>3. TypeOK'
  BY <1>1, <1>2 DEF Inv, TypeOK, AllKeys
<1>4. CallsOK'
  BY <1>1 DEF Inv, CallsOK, AllKeys, LeftEnds
<1>5. ArrInDict'
  BY <1>1, <1>2 DEF Inv, ArrInDict, Deleted
<1>6. Filled'
  BY <1>1, <1>2 DEF Inv, Filled, AllKeys, CallsOK
<1>7. FewMissing'
  <2>1. pc' = pc /\ del_cnt' = del_cnt /\ i' = i
    BY <1>1
  <2>2. CASE call.op = "set"
    <3>1. MissingKeys' = MissingKeys \ {call.key}
      BY <1>2, <2>2 DEF MissingKeys, AllKeys
    <3>2. Cardinality(MissingKeys') <= Cardinality(MissingKeys)
      <4>1. IsFiniteSet(MissingKeys) /\ Cardinality(MissingKeys) \in Nat
        BY MissingFinite DEF Inv
      <4>2. Cardinality(MissingKeys \ {call.key}) <= Cardinality(MissingKeys)
        BY <4>1, FS_RemoveElement
      <4>3. QED
        BY <3>1, <4>2
    <3>3. ~Deleted /\ ~Deleted'
      BY <1>1, <2>2 DEF Deleted
    <3>4. Cardinality(MissingKeys') \in Nat
      BY <3>1, MissingFinite, FS_RemoveElement, FS_CardinalityType DEF Inv
    <3>5. QED
      BY <2>1, <3>2, <3>3, <3>4, MissingFinite DEF Inv, FewMissing, TypeOK
  <2>3. CASE call.op = "del"
    <3>1. MissingKeys' = MissingKeys \cup {call.key}
      BY <1>1, <1>2, <2>3 DEF MissingKeys, AllKeys
    <3>2. /\ Cardinality(MissingKeys') <= Cardinality(MissingKeys) + 1
          /\ Cardinality(MissingKeys) \in Nat
      <4>1. IsFiniteSet(MissingKeys) /\ Cardinality(MissingKeys) \in Nat
        BY MissingFinite DEF Inv
      <4>2. Cardinality(MissingKeys \cup {call.key}) <= Cardinality(MissingKeys) + 1
        BY <4>1, FS_AddElement
      <4>3. QED
        BY <3>1, <4>1, <4>2
    <3>3. ~Deleted /\ Deleted'
      BY <1>1, <2>3 DEF Deleted
    <3>4. Cardinality(MissingKeys') \in Nat
      BY <3>1, MissingFinite, FS_AddElement, FS_CardinalityType DEF Inv
    <3>5. QED
      BY <2>1, <3>2, <3>3, <3>4 DEF Inv, FewMissing, TypeOK
  <2>4. QED
    BY <1>1, <2>2, <2>3
<1>8. QED
  BY <1>3, <1>4, <1>5, <1>6, <1>7 DEF Inv

\* The step at which the storage returns: only a getRange throws, because a del
\* and a get are asked for keys of arr.
LEMMA AnswerInv ==
    ASSUME Inv, StorageStep, ~(Storage!Set \/ Storage!Del)
    PROVE  Inv'
<1> USE DEF StorageStep
<1>1. /\ UNCHANGED <<pc, waiting, i, arr, del_cnt, call, dict>>
      /\ phase \in {"called", "done"} /\ phase' = "idle" /\ waiting
      /\ phase = "called" => call.op # "del"
      /\ response' = Thrown => call.op = "getRange" /\ Beyond
  <2>1. CASE Storage!Acknowledge
    BY <2>1 DEF Storage!Acknowledge, Storage!Return, Inv, TypeOK, CallsOK,
                Storage!Done, Thrown
  <2>2. CASE Storage!Missing
    BY <2>2 DEF Storage!Missing, Inv, TypeOK, CallsOK, ArrInDict, Deleted
  <2>3. CASE Storage!Get
    BY <2>3 DEF Storage!Get, Storage!Return, Inv, TypeOK, CallsOK, Storage!Answer, Thrown
  <2>4. CASE Storage!GetRange
    BY <2>4 DEF Storage!GetRange, Storage!Return, Inv, TypeOK, CallsOK, Storage!Listing, Thrown
  <2>5. CASE Storage!GetRangeBeyondEnd
    BY <2>5 DEF Storage!GetRangeBeyondEnd, Storage!Return, Inv, TypeOK, CallsOK, Beyond
  <2>6. QED
    BY <2>1, <2>2, <2>3, <2>4, <2>5 DEF Storage!Next
<1>2. TypeOK'
  BY <1>1 DEF Inv, TypeOK
<1>3. CallsOK'
  BY <1>1 DEF Inv, CallsOK, AllKeys, LeftEnds, Beyond
<1>4. Deleted' <=> Deleted
  BY <1>1 DEF Deleted
<1>5. ArrInDict'
  BY <1>1, <1>4 DEF Inv, ArrInDict
<1>6. Filled'
  <2>1. pc = "fill" => i \in DOMAIN dict \/ phase = "called"
    BY <1>1 DEF Inv, Filled
  <2>2. pc = "fill" => phase = "done"
    <3>1. pc = "fill" /\ phase = "called" => call.op = "set"
      BY <1>1 DEF Inv, CallsOK
    <3>2. phase = "called" => call.op # "set"
      BY DEF Storage!Next, Storage!Acknowledge, Storage!Missing, Storage!Get,
             Storage!GetRange, Storage!GetRangeBeyondEnd
    <3>3. QED
      BY <1>1, <3>1, <3>2
  <2>3. QED
    BY <1>1, <2>1, <2>2 DEF Inv, Filled, AllKeys
<1>7. FewMissing'
  <2>1. MissingKeys' = MissingKeys
    BY <1>1 DEF MissingKeys, AllKeys
  <2>2. QED
    BY <1>1, <1>4, <2>1 DEF Inv, FewMissing
<1>8. QED
  BY <1>2, <1>3, <1>5, <1>6, <1>7 DEF Inv

LEMMA ReturnsInv == ASSUME Inv, CallReturns PROVE Inv'
<1> USE DEF CallReturns
<1>1. /\ waiting /\ ~waiting' /\ phase = "idle" /\ i' = i + 1
      /\ UNCHANGED <<storage, pc, dict, phase, call, response>>
      /\ pc \in {"fill", "work"} /\ i < InitSize
      /\ call.key \in AllKeys
      /\ pc = "fill" => call.op = "set" /\ call.key = i
  BY DEF Inv, CallsOK, storage
<1>2. arr' \in {arr, arr \cup {call.key}, arr \ {call.key}}
  BY DEF ArrAfter
<1>3. del_cnt' = IF Deleted THEN del_cnt + 1 ELSE del_cnt
  BY <1>1 DEF Deleted
<1>4. del_cnt \in 0 .. i /\ (pc = "fill" => ~Deleted)
  BY <1>1 DEF Inv, TypeOK, FewMissing, Filled, Deleted
<1>5. TypeOK'
  <2>1. i \in Nat /\ i + 1 \in 0 .. InitSize
    BY <1>1, SizesAssumption DEF Inv, TypeOK
  <2>2. i' \in 0 .. InitSize /\ del_cnt' \in 0 .. InitSize
    BY <1>1, <1>3, <1>4, <2>1, SizesAssumption
  <2>3. arr' \subseteq AllKeys
    BY <1>1, <1>2 DEF Inv, TypeOK
  <2>4. QED
    BY <1>1, <2>2, <2>3 DEF Inv, TypeOK, AllKeys
<1>6. CallsOK'
  BY <1>1 DEF Inv, CallsOK
<1>7. ArrInDict'
  <2>1. CASE pc = "fill"
    <3>1. call.key \in DOMAIN dict
      BY <1>1, <2>1 DEF Inv, Filled
    <3>2. arr' = arr \cup {call.key}
      BY <2>1 DEF ArrAfter
    <3>3. QED
      BY <1>1, <1>4, <2>1, <3>1, <3>2 DEF Inv, ArrInDict, Deleted
  <2>2. CASE pc # "fill" /\ call.op = "del"
    BY <1>1, <2>2 DEF Inv, ArrInDict, Deleted, ArrAfter
  <2>3. CASE pc # "fill" /\ call.op # "del"
    BY <1>1, <2>3 DEF Inv, ArrInDict, Deleted, ArrAfter
  <2>4. QED
    BY <2>1, <2>2, <2>3
<1>8. Filled'
  BY <1>1, <1>3, <1>4 DEF Inv, TypeOK, Filled, AllKeys
<1>9. FewMissing'
  <2>1. MissingKeys' = MissingKeys
    BY <1>1 DEF MissingKeys, AllKeys
  <2>2. ~Deleted'
    BY <1>1 DEF Deleted
  <2>3. QED
    BY <1>1, <1>3, <1>4, <2>1, <2>2, MissingFinite DEF Inv, TypeOK, FewMissing
<1>10. QED
  BY <1>5, <1>6, <1>7, <1>8, <1>9 DEF Inv

LEMMA ThrowsInv == ASSUME Inv, CallThrows PROVE Inv'
<1> USE DEF CallThrows
<1>1. /\ UNCHANGED <<storage, dict, phase, call, response, i, arr, del_cnt>>
      /\ waiting /\ ~waiting' /\ phase = "idle" /\ pc' = "aborted"
      /\ call.op = "getRange" /\ Beyond /\ pc = "work"
      /\ call.key \in LeftEnds
  BY DEF storage, Inv, CallsOK
<1>2. TypeOK' /\ CallsOK'
  BY <1>1 DEF Inv, TypeOK, CallsOK, Beyond, LeftEnds, AllKeys
<1>3. ~Deleted /\ ~Deleted'
  BY <1>1 DEF Deleted
<1>4. ArrInDict' /\ Filled'
  BY <1>1, <1>3 DEF Inv, ArrInDict, Filled
<1>5. FewMissing'
  BY <1>1, <1>3 DEF Inv, FewMissing, MissingKeys, AllKeys
<1>6. QED
  BY <1>2, <1>4, <1>5 DEF Inv

LEMMA SkipInv == ASSUME Inv, Skip PROVE Inv'
<1>1. /\ UNCHANGED <<dict, phase, call, response, pc, waiting, arr, del_cnt>>
      /\ ~waiting /\ i' = i + 1 /\ i < InitSize /\ pc = "work"
  BY DEF Skip, storage
<1>2. TypeOK' /\ CallsOK'
  BY <1>1, SizesAssumption DEF Inv, TypeOK, CallsOK, AllKeys, LeftEnds
<1>3. ArrInDict' /\ Filled'
  BY <1>1 DEF Inv, ArrInDict, Filled, Deleted
<1>4. FewMissing'
  BY <1>1 DEF Inv, TypeOK, FewMissing, MissingKeys, AllKeys, Deleted
<1>5. QED
  BY <1>2, <1>3, <1>4 DEF Inv

\* The first loop ends with no key missing.
LEMMA LoopEndsInv == ASSUME Inv, LoopEnds PROVE Inv'
<1>1. /\ UNCHANGED <<dict, phase, call, response, waiting, arr, del_cnt>>
      /\ ~waiting /\ i = InitSize
      /\ pc = "fill" => pc' = "work" /\ i' = 0
      /\ pc = "work" => pc' = "done" /\ i' = i
      /\ pc \in {"fill", "work"}
  BY DEF LoopEnds, storage
<1>2. TypeOK' /\ CallsOK'
  BY <1>1, SizesAssumption DEF Inv, TypeOK, CallsOK, AllKeys, LeftEnds
<1>3. ArrInDict' /\ Filled'
  BY <1>1 DEF Inv, ArrInDict, Filled, Deleted
<1>4. ~Deleted /\ ~Deleted'
  BY <1>1 DEF Deleted
<1>5. FewMissing'
  <2>1. CASE pc = "fill"
    <3>1. MissingKeys' = {}
      BY <1>1, <2>1, SizesAssumption DEF Inv, Filled, MissingKeys, AllKeys
    <3>2. del_cnt' = 0 /\ i' = 0
      BY <1>1, <2>1 DEF Inv, Filled
    <3>3. QED
      BY <1>4, <3>1, <3>2, FS_EmptySet DEF FewMissing
  <2>2. CASE pc = "work"
    BY <1>1, <1>4, <2>2 DEF Inv, FewMissing, MissingKeys, AllKeys
  <2>3. QED
    BY <1>1, <2>1, <2>2
<1>6. QED
  BY <1>2, <1>3, <1>5 DEF Inv

LEMMA StepInv == Inv /\ [Next]_vars => Inv'
<1> SUFFICES ASSUME Inv, [Next]_vars PROVE Inv'
  OBVIOUS
<1>1. CASE Calling
  BY <1>1, CallingInv
<1>2. CASE StorageStep
  BY <1>2, EffectInv, AnswerInv
<1>3. CASE CallReturns
  BY <1>3, ReturnsInv
<1>4. CASE CallThrows
  BY <1>4, ThrowsInv
<1>5. CASE Skip
  BY <1>5, SkipInv
<1>6. CASE LoopEnds
  BY <1>6, LoopEndsInv
<1>7. CASE UNCHANGED vars
  BY <1>7 DEF vars, storage, Inv, TypeOK, CallsOK, ArrInDict, Filled, FewMissing,
              Deleted, Beyond, MissingKeys, AllKeys, LeftEnds
<1>8. QED
  BY <1>1, <1>2, <1>3, <1>4, <1>5, <1>6, <1>7 DEF Next, Calling

-------------------------------------------------------------------------------
\* The variables of main keep their types.
THEOREM TypeCorrect == Spec => []TypeOK
<1>1. Inv => TypeOK
  BY DEF Inv
<1>2. QED
  BY <1>1, InitInv, StepInv, PTL DEF Spec

\* main's own bookkeeping keeps every get and del from throwing, however many
\* keys there are and whatever rand() gives.
THEOREM GuardsSuffice == Spec => []OnlyRangesThrow
<1>1. Inv => OnlyRangesThrow
  BY DEF Inv, CallsOK, OnlyRangesThrow
<1>2. QED
  BY <1>1, InitInv, StepInv, PTL DEF Spec

\* A getRange that throws has found at least max_range + 1 keys deleted, and
\* every one of them took a del of its own.
THEOREM AbortIsRare == Spec => []AbortTakesManyDels
<1>1. Inv => AbortTakesManyDels
  <2> SUFFICES ASSUME Inv, pc = "aborted" PROVE del_cnt > MaxRange
    BY DEF AbortTakesManyDels
  <2> DEFINE above == call.key .. InitSize - 1
  <2>1. call.key \in 0 .. InitSize - MaxRange - 1 /\ Beyond /\ ~Deleted
    BY DEF Inv, CallsOK, LeftEnds, Deleted
  <2>2. above \in SUBSET MissingKeys
    BY <2>1, SizesAssumption DEF Beyond, MissingKeys, AllKeys
  <2>3. Cardinality(above) >= MaxRange + 1
    <3>1. call.key \in Int /\ InitSize - 1 \in Int /\ call.key <= InitSize - 1 - MaxRange
      BY <2>1, SizesAssumption
    <3>2. Cardinality(above) =
            IF call.key > InitSize - 1 THEN 0 ELSE (InitSize - 1) - call.key + 1
      BY <3>1, FS_Interval, Zenon
    <3>3. QED
      BY <3>1, <3>2, SizesAssumption
  <2>4. Cardinality(above) \in Nat /\ Cardinality(above) <= Cardinality(MissingKeys)
    BY <2>2, MissingFinite, FS_Subset, FS_CardinalityType DEF Inv
  <2>5. Cardinality(MissingKeys) <= del_cnt
    BY <2>1, MissingFinite DEF Inv, FewMissing, TypeOK
  <2>6. QED
    BY <2>3, <2>4, <2>5, MissingFinite, SizesAssumption DEF Inv, TypeOK
<1>2. QED
  BY <1>1, InitInv, StepInv, PTL DEF Spec

===============================================================================
