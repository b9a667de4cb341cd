------------------------ MODULE SchedulerService_proofs ------------------------
(***************************************************************************)
(* Proofs about SchedulerService, for any tenants and any size of the      *)
(* gate, and at the end about the record of a sync (SyncProgress), for any *)
(* finite number of pages.                                                 *)
(***************************************************************************)
EXTENDS MCSchedulerService, TLAPS, FiniteSetTheorems, SequenceTheorems

USE ServiceAssumption

Holders == {k \in Tasks : at[k] \in {"woken", "cycle"}}
Outside == {"none", "awake", "asleep"}

\* The queue holds each waiter once, and only tasks that wait.
InLine ==
    \A i, j \in 1 .. Len(waiters) :
        at[waiters[i]] = "gate" /\ (waiters[i] = waiters[j] => i = j)

Accounted == permits + Cardinality(Holders) = GateSize

NoneIdle == permits > 0 /\ waiters # << >> => Woken # {}

GateOK == InLine /\ Accounted /\ NoneIdle

\* At most one task of a tenant is engaged, and the flag says whether one is.
OneEngaged ==
    \A t \in Tenants : ~(at[loop(t)] \in Engaged /\ at[trigger(t)] \in Engaged)

\* A service that did not come up has no loop.
LoopLives == \A t \in Tenants : service[t] # "up" => at[loop(t)] = "none"

Flags == OneEngaged /\ FlagIsTrue

IInv == TypeOK /\ GateOK /\ Flags /\ LoopLives

GateType ==
    permits \in 0 .. GateSize /\ waiters \in Seq(Tasks) /\ at \in [Tasks -> Places]

-----------------------------------------------------------------------------
LEMMA TaskFacts ==
    /\ IsFiniteSet(Tasks)
    /\ \A t \in Tenants : loop(t) \in Tasks /\ trigger(t) \in Tasks
    /\ \A s, t \in Tenants : loop(s) # trigger(t) /\ (loop(s) = loop(t) => s = t)
                             /\ (trigger(s) = trigger(t) => s = t)
<1>1. IsFiniteSet({"loop", "trigger"})
  <2>1. IsFiniteSet({"loop"})
    BY FS_Singleton
  <2>2. IsFiniteSet({"loop"} \cup {"trigger"})
    BY <2>1, FS_AddElement
  <2>3. {"loop", "trigger"} = {"loop"} \cup {"trigger"}
    OBVIOUS
  <2> QED BY <2>2, <2>3
<1>2. IsFiniteSet(Tasks)
  BY <1>1, FS_Product DEF Tasks
<1> QED BY <1>2 DEF Tasks, loop, trigger

LEMMA HoldersFinite ==
    /\ IsFiniteSet(Holders) /\ Cardinality(Holders) \in Nat
    /\ IsFiniteSet(Holders') /\ Cardinality(Holders') \in Nat
<1>1. Holders \in SUBSET Tasks /\ Holders' \in SUBSET Tasks
  BY DEF Holders
<1> QED BY <1>1, TaskFacts, FS_Subset, FS_CardinalityType

LEMMA AcquireStep ==
    ASSUME GateType, GateOK, NEW k \in Tasks, at[k] = "awake", Acquire(k)
    PROVE  /\ GateType' /\ GateOK'
           /\ at'[k] \in Engaged
           /\ \A j \in Tasks \ {k} : at'[j] = at[j]
<1> USE DEF GateType
<1>1. CASE permits > 0 /\ waiters = << >> /\ Woken = {}
  <2>1. permits' = permits - 1 /\ at' = [at EXCEPT ![k] = "cycle"] /\ waiters' = waiters
    BY <1>1 DEF Acquire
  <2>2. Holders' = Holders \cup {k} /\ k \notin Holders
    BY <2>1 DEF Holders, Places
  <2>3. Cardinality(Holders') = Cardinality(Holders) + 1
    BY <2>2, HoldersFinite, FS_AddElement
  <2>4. Accounted'
    BY <2>1, <2>3, HoldersFinite DEF GateOK, Accounted
  <2>5. GateType'
    BY <1>1, <2>1 DEF Places
  <2> QED BY <1>1, <2>1, <2>4, <2>5 DEF GateOK, InLine, NoneIdle, Engaged
<1>2. CASE ~(permits > 0 /\ waiters = << >> /\ Woken = {})
  <2>1. permits' = permits /\ at' = [at EXCEPT ![k] = "gate"] /\ waiters' = Append(waiters, k)
    BY <1>2 DEF Acquire
  <2>2. Holders' = Holders /\ Woken' = Woken
    BY <2>1 DEF Holders, Woken, Places
  <2>3. GateType'
    BY <2>1 DEF Places
  <2>4. /\ Len(waiters') = Len(waiters) + 1
        /\ waiters'[Len(waiters) + 1] = k
        /\ \A i \in 1 .. Len(waiters) : waiters'[i] = waiters[i] /\ waiters[i] \in Tasks
    BY <2>1
  <2>5. \A i \in 1 .. Len(waiters) : waiters[i] # k /\ at'[waiters[i]] = "gate"
    BY <2>1, <2>4 DEF GateOK, InLine
  <2>6. InLine'
    BY <2>1, <2>4, <2>5 DEF GateOK, InLine
  <2> QED BY <1>2, <2>1, <2>2, <2>3, <2>6 DEF GateOK, Accounted, NoneIdle, Engaged
<1> QED BY <1>1, <1>2

LEMMA ReleaseStep ==
    ASSUME GateType, GateOK, NEW k \in Tasks, at[k] = "cycle",
           NEW place \in Outside, Release(k, place)
    PROVE  /\ GateType' /\ GateOK'
           /\ at'[k] = place
           /\ \A j \in Tasks \ {k} :
                 at'[j] = at[j] \/ (at[j] = "gate" /\ at'[j] = "woken")
<1> USE DEF GateType
<1>0. k \in Holders /\ Cardinality(Holders \ {k}) = Cardinality(Holders) - 1
      /\ IsFiniteSet(Holders \ {k})
  BY HoldersFinite, FS_RemoveElement DEF Holders
<1>1. CASE waiters = << >>
  <2>1. permits' = permits + 1 /\ at' = [at EXCEPT ![k] = place] /\ waiters' = waiters
    BY <1>1 DEF Release
  <2>2. Holders' = Holders \ {k}
    BY <2>1 DEF Holders, Outside
  <2>3. Accounted'
    BY <1>0, <2>1, <2>2, HoldersFinite DEF GateOK, Accounted
  <2>4. permits' \in 0 .. GateSize
    BY <2>1, <2>3, HoldersFinite DEF Accounted
  <2>5. GateType'
    BY <2>1, <2>4 DEF Places, Outside
  <2> QED BY <1>1, <2>1, <2>3, <2>5 DEF GateOK, InLine, NoneIdle
<1>2. CASE waiters # << >>
  <2> DEFINE h == Head(waiters)
  <2>1. /\ permits' = permits /\ waiters' = Tail(waiters)
        /\ at' = [at EXCEPT ![k] = place, ![h] = "woken"]
    BY <1>2 DEF Release
  <2>2. /\ Len(waiters) \in Nat \ {0} /\ h = waiters[1] /\ h \in Tasks
        /\ Len(waiters') = Len(waiters) - 1
        /\ \A i \in 1 .. Len(waiters') : waiters'[i] = waiters[i + 1]
        /\ waiters' \in Seq(Tasks)
    BY <1>2, <2>1
  <2>3. at[h] = "gate" /\ h # k /\ h \notin Holders
    BY <2>2 DEF GateOK, InLine, Holders
  <2>4. Holders' = (Holders \ {k}) \cup {h}
    BY <2>1, <2>2, <2>3 DEF Holders, Outside
  <2>5. Cardinality(Holders') = Cardinality(Holders)
    <3>1. h \notin Holders \ {k}
      BY <2>3
    <3>2. Cardinality((Holders \ {k}) \cup {h}) = Cardinality(Holders \ {k}) + 1
      BY <1>0, <3>1, FS_AddElement
    <3> QED BY <1>0, <2>4, <3>2, HoldersFinite
  <2>6. \A i \in 1 .. Len(waiters') :
            /\ waiters[i + 1] \in Tasks /\ at[waiters[i + 1]] = "gate"
            /\ waiters[i + 1] # h /\ waiters[i + 1] # k
    BY <2>2 DEF GateOK, InLine
  <2>7. InLine'
    BY <2>1, <2>2, <2>6 DEF GateOK, InLine
  <2>8. h \in Woken'
    BY <2>1, <2>2, <2>3 DEF Woken
  <2>9. GateType'
    BY <2>1, <2>2 DEF Places, Outside
  <2> QED BY <2>1, <2>2, <2>3, <2>5, <2>7, <2>8, <2>9 DEF GateOK, Accounted, NoneIdle
<1> QED BY <1>1, <1>2

LEMMA EnterStep ==
    ASSUME GateType, GateOK, NEW k \in Tasks, EnterCycle(k)
    PROVE  /\ GateType' /\ GateOK'
           /\ at[k] = "woken" /\ at'[k] = "cycle"
           /\ \A j \in Tasks \ {k} :
                 at'[j] = at[j] \/ (at[j] = "gate" /\ at'[j] = "woken")
<1> USE DEF GateType
<1>1. at[k] = "woken"
  BY DEF EnterCycle
<1>2. PICK n \in 0 .. permits :
           /\ n = permits \/ n = Len(waiters)
           /\ n <= Len(waiters)
           /\ permits' = permits - n
           /\ waiters' = SubSeq(waiters, n + 1, Len(waiters))
           /\ at' = [j \in Tasks |-> IF j = k THEN "cycle"
                                     ELSE IF j \in {waiters[i] : i \in 1 .. n}
                                     THEN "woken" ELSE at[j]]
  BY DEF EnterCycle
<1> DEFINE next == {waiters[i] : i \in 1 .. n}
<1>3. /\ n \in Nat /\ Len(waiters) \in Nat
      /\ \A i \in 1 .. Len(waiters) : waiters[i] \in Tasks /\ at[waiters[i]] = "gate"
      /\ k \notin next /\ next \subseteq Tasks
      /\ \A j \in next : at[j] = "gate"
  <2>1. n \in Nat /\ Len(waiters) \in Nat /\ n <= Len(waiters)
    BY <1>2
  <2>2. \A i \in 1 .. Len(waiters) : waiters[i] \in Tasks
    OBVIOUS
  <2>3. \A i \in 1 .. Len(waiters) : at[waiters[i]] = "gate"
    BY DEF GateOK, InLine
  <2>4. \A j \in next : \E i \in 1 .. Len(waiters) : j = waiters[i]
    BY <2>1
  <2> HIDE DEF next
  <2>5. \A j \in next : j \in Tasks /\ at[j] = "gate"
    BY <2>2, <2>3, <2>4
  <2>6. k \notin next
    BY <1>1, <2>5
  <2> QED BY <2>1, <2>2, <2>3, <2>5, <2>6
<1>4. \A j \in Tasks : at'[j] = IF j = k THEN "cycle"
                                ELSE IF j \in next THEN "woken" ELSE at[j]
  BY <1>2
<1>5. at' \in [Tasks -> Places]
  BY <1>2 DEF Places
<1>6. /\ Len(waiters') = Len(waiters) - n
      /\ \A i \in 1 .. Len(waiters') : waiters'[i] = waiters[i + n]
      /\ waiters' \in Seq(Tasks)
  BY <1>2, <1>3
<1>7. InLine'
  <2>1. \A i, j \in 1 .. Len(waiters) : waiters[i] = waiters[j] => i = j
    BY DEF GateOK, InLine
  <2>2. \A i \in 1 .. Len(waiters') : i + n \in 1 .. Len(waiters) /\ i + n \notin 1 .. n
    BY <1>3, <1>6
  <2>3. \A i \in 1 .. n : i \in 1 .. Len(waiters)
    BY <1>2, <1>3
  <2>4. \A i \in 1 .. Len(waiters') : waiters[i + n] \notin next
    BY <2>1, <2>2, <2>3
  <2> HIDE DEF next
  <2>5. \A i \in 1 .. Len(waiters') :
            waiters[i + n] \in Tasks /\ at[waiters[i + n]] = "gate"
    BY <1>3, <2>2
  <2>6. \A i \in 1 .. Len(waiters') : at'[waiters[i + n]] = "gate"
    BY <1>1, <1>4, <2>4, <2>5
  <2>7. \A i, j \in 1 .. Len(waiters') : waiters'[i] = waiters'[j] => i = j
    <3> SUFFICES ASSUME NEW i \in 1 .. Len(waiters'), NEW j \in 1 .. Len(waiters'),
                        waiters'[i] = waiters'[j]
                 PROVE  i = j
      OBVIOUS
    <3>1. waiters[i + n] = waiters[j + n]
      BY <1>6
    <3>2. i + n = j + n
      BY <2>1, <2>2, <3>1
    <3>3. i \in Int /\ j \in Int
      BY <1>3, <1>6
    <3> QED BY <1>3, <3>2, <3>3
  <2> QED BY <1>6, <2>6, <2>7 DEF InLine
<1>8. IsFiniteSet(next) /\ Cardinality(next) = n
  <2> DEFINE f == [i \in 1 .. n |-> waiters[i]]
  <2>1. \A i, j \in 1 .. n : waiters[i] = waiters[j] => i = j
    BY <1>2, <1>3 DEF GateOK, InLine
  <2>2. f \in Bijection(1 .. n, next)
    BY <2>1 DEF Bijection, Injection, Surjection, IsInjective
  <2>3. ExistsBijection(1 .. n, next)
    BY <2>2 DEF ExistsBijection
  <2>4. IsFiniteSet(1 .. n) /\ Cardinality(1 .. n) = n
    BY <1>3, FS_Interval
  <2> HIDE DEF next
  <2> QED BY <2>3, <2>4, FS_Bijection
<1>9. Holders' = Holders \cup next /\ Holders \cap next = {}
  BY <1>1, <1>3, <1>4 DEF Holders
<1>10. Cardinality(Holders') = Cardinality(Holders) + n
  <2> HIDE DEF next
  <2>1. Cardinality(Holders \cap next) = 0
    BY <1>9, FS_EmptySet
  <2>2. Cardinality(Holders \cup next)
          = Cardinality(Holders) + Cardinality(next) - Cardinality(Holders \cap next)
    BY <1>8, HoldersFinite, FS_Union
  <2> QED BY <1>3, <1>8, <1>9, <2>1, <2>2, HoldersFinite
<1>11. Accounted'
  BY <1>2, <1>3, <1>10, HoldersFinite DEF GateOK, Accounted
<1>12. permits' = 0 \/ waiters' = << >>
  BY <1>2, <1>3, <1>6
<1> QED BY <1>1, <1>2, <1>3, <1>4, <1>5, <1>6, <1>7, <1>11, <1>12
        DEF GateOK, NoneIdle

\* Outside the gate tasks come and go as they like.
LEMMA QuietStep ==
    ASSUME GateType, GateOK, UNCHANGED gate, at' \in [Tasks -> Places],
           \A j \in Tasks : at'[j] = at[j] \/ (at[j] \in Outside /\ at'[j] \in Outside)
    PROVE  GateType' /\ GateOK'
<1> USE DEF GateType, gate
<1>1. Holders' = Holders /\ Woken' = Woken
  BY DEF Holders, Woken, Outside
<1>2. \A i \in 1 .. Len(waiters) : waiters[i] \in Tasks /\ at'[waiters[i]] = "gate"
  BY DEF GateOK, InLine, Outside
<1> QED BY <1>1, <1>2 DEF GateOK, InLine, Accounted, NoneIdle

-----------------------------------------------------------------------------
(* The flag                                                                *)

LEMMA FlagsKept ==
    ASSUME Flags, syncing' = syncing,
           \A j \in Tasks : at'[j] \in Engaged <=> at[j] \in Engaged
    PROVE  Flags'
BY TaskFacts DEF Flags, OneEngaged, FlagIsTrue

LEMMA FlagSet ==
    ASSUME TypeOK, Flags, NEW t \in Tenants, NEW k \in {loop(t), trigger(t)},
           ~syncing[t], syncing' = [syncing EXCEPT ![t] = TRUE],
           at'[k] \in Engaged,
           \A j \in Tasks \ {k} : at'[j] \in Engaged <=> at[j] \in Engaged
    PROVE  Flags'
<1>1. ~(at[loop(t)] \in Engaged) /\ ~(at[trigger(t)] \in Engaged)
  BY DEF Flags, FlagIsTrue
<1> SUFFICES ASSUME NEW s \in Tenants
             PROVE  /\ ~(at'[loop(s)] \in Engaged /\ at'[trigger(s)] \in Engaged)
                    /\ syncing'[s] <=> at'[loop(s)] \in Engaged \/ at'[trigger(s)] \in Engaged
  BY DEF Flags, OneEngaged, FlagIsTrue, Engaged
<1>2. CASE s = t
  <2>1. syncing'[s] = TRUE
    BY <1>2 DEF TypeOK
  <2>2. \A j \in {loop(t), trigger(t)} \ {k} : ~(at'[j] \in Engaged)
    BY <1>1, TaskFacts
  <2> QED BY <1>2, <2>1, <2>2, TaskFacts
<1>3. CASE s # t
  <2>1. syncing'[s] = syncing[s]
    BY <1>3 DEF TypeOK
  <2>2. loop(s) \in Tasks \ {k} /\ trigger(s) \in Tasks \ {k}
    BY <1>3, TaskFacts
  <2> QED BY <2>1, <2>2 DEF Flags, OneEngaged, FlagIsTrue
<1> QED BY <1>2, <1>3

LEMMA FlagCleared ==
    ASSUME TypeOK, Flags, NEW t \in Tenants, NEW k \in {loop(t), trigger(t)},
           at[k] \in Engaged, syncing' = [syncing EXCEPT ![t] = FALSE],
           ~(at'[k] \in Engaged),
           \A j \in Tasks \ {k} : at'[j] \in Engaged <=> at[j] \in Engaged
    PROVE  Flags'
<1>1. \A j \in {loop(t), trigger(t)} \ {k} : ~(at[j] \in Engaged)
  BY TaskFacts DEF Flags, OneEngaged
<1> SUFFICES ASSUME NEW s \in Tenants
             PROVE  /\ ~(at'[loop(s)] \in Engaged /\ at'[trigger(s)] \in Engaged)
                    /\ syncing'[s] <=> at'[loop(s)] \in Engaged \/ at'[trigger(s)] \in Engaged
  BY DEF Flags, OneEngaged, FlagIsTrue, Engaged
<1>2. CASE s = t
  <2>1. syncing'[s] = FALSE
    BY <1>2 DEF TypeOK
  <2>2. \A j \in {loop(t), trigger(t)} \ {k} : ~(at'[j] \in Engaged)
    BY <1>1, TaskFacts
  <2> QED BY <1>2, <2>1, <2>2, TaskFacts
<1>3. CASE s # t
  <2>1. syncing'[s] = syncing[s]
    BY <1>3 DEF TypeOK
  <2>2. loop(s) \in Tasks \ {k} /\ trigger(s) \in Tasks \ {k}
    BY <1>3, TaskFacts
  <2> QED BY <2>1, <2>2 DEF Flags, OneEngaged, FlagIsTrue
<1> QED BY <1>2, <1>3

-----------------------------------------------------------------------------
(* The induction                                                           *)

LEMMA FreshIsFine ==
    Fresh => GateType /\ GateOK /\ Flags
<1> SUFFICES ASSUME Fresh PROVE GateType /\ GateOK /\ Flags
  OBVIOUS
<1>1. GateType
  BY DEF Fresh, GateType, Places
<1>2. Holders = {}
  BY DEF Fresh, Holders
<1>3. Accounted
  BY <1>2, FS_EmptySet DEF Fresh, Accounted
<1>4. InLine /\ NoneIdle
  BY DEF Fresh, InLine, NoneIdle
<1>5. Flags
  BY TaskFacts DEF Fresh, Flags, OneEngaged, FlagIsTrue, Engaged
<1> QED BY <1>1, <1>3, <1>4, <1>5 DEF GateOK

LEMMA Initially == Init => IInv
<1> SUFFICES ASSUME Init PROVE IInv
  OBVIOUS
<1>1. GateType /\ GateOK /\ Flags
  BY FreshIsFine DEF Init
<1>2. TypeOK
  BY <1>1 DEF Init, Fresh, TypeOK, GateType
<1>3. LoopLives
  BY TaskFacts DEF Init, Fresh, LoopLives
<1> QED BY <1>1, <1>2, <1>3 DEF IInv

\* What each action does to a task's place: it stays in or out of the gate.
MovesOutside(k) ==
    /\ UNCHANGED gate
    /\ at[k] \in Outside
    /\ \E place \in Outside : at' = [at EXCEPT ![k] = place]

LEMMA MoveStep ==
    ASSUME TypeOK, GateOK, Flags, NEW k \in Tasks, MovesOutside(k), syncing' = syncing
    PROVE  GateType' /\ GateOK' /\ Flags'
<1>1. GateType /\ UNCHANGED gate
  BY DEF TypeOK, GateType, MovesOutside
<1>2. at' \in [Tasks -> Places]
  BY DEF TypeOK, MovesOutside, Outside, Places
<1>3. \A j \in Tasks : at'[j] = at[j] \/ (at[j] \in Outside /\ at'[j] \in Outside)
  BY DEF TypeOK, MovesOutside
<1>4. \A j \in Tasks : at'[j] \in Engaged <=> at[j] \in Engaged
  BY <1>3 DEF Engaged, Outside
<1> QED BY <1>1, <1>2, <1>3, <1>4, QuietStep, FlagsKept

LEMMA StillStep ==
    ASSUME TypeOK, GateOK, Flags, UNCHANGED <<at, gate, syncing>>
    PROVE  GateType' /\ GateOK' /\ Flags'
<1>1. GateType /\ UNCHANGED gate /\ at' \in [Tasks -> Places] /\ at' = at
  BY DEF TypeOK, GateType
<1> QED BY <1>1, QuietStep, FlagsKept

\* A task that does not exist does not begin to.
NoneStarts == \A j \in Tasks : at[j] = "none" => at'[j] = "none"

LEMMA BeginStep ==
    ASSUME TypeOK, GateOK, Flags, NEW t \in Tenants, NEW k \in {loop(t), trigger(t)},
           at[k] = "awake", ~syncing[t], syncing' = [syncing EXCEPT ![t] = TRUE],
           Acquire(k)
    PROVE  GateType' /\ GateOK' /\ Flags' /\ NoneStarts
<1>1. GateType /\ k \in Tasks
  BY TaskFacts DEF TypeOK, GateType
<1>2. /\ GateType' /\ GateOK' /\ at'[k] \in Engaged
      /\ \A j \in Tasks \ {k} : at'[j] = at[j]
  BY <1>1, AcquireStep
<1> QED BY <1>2, FlagSet DEF NoneStarts

LEMMA EndStep ==
    ASSUME TypeOK, GateOK, Flags, NEW t \in Tenants, NEW k \in {loop(t), trigger(t)},
           at[k] = "cycle", syncing' = [syncing EXCEPT ![t] = FALSE],
           NEW place \in Outside, Release(k, place)
    PROVE  GateType' /\ GateOK' /\ Flags' /\ NoneStarts
<1>1. GateType /\ k \in Tasks
  BY TaskFacts DEF TypeOK, GateType
<1>2. /\ GateType' /\ GateOK' /\ at'[k] = place
      /\ \A j \in Tasks \ {k} :
            at'[j] = at[j] \/ (at[j] = "gate" /\ at'[j] = "woken")
  BY <1>1, ReleaseStep
<1>3. at[k] \in Engaged /\ ~(at'[k] \in Engaged)
  BY <1>2 DEF Engaged, Outside
<1>4. \A j \in Tasks \ {k} : at'[j] \in Engaged <=> at[j] \in Engaged
  BY <1>2 DEF Engaged
<1> QED BY <1>2, <1>3, <1>4, FlagCleared DEF NoneStarts

LEMMA PassStep ==
    ASSUME TypeOK, GateOK, Flags, NEW k \in Tasks, EnterCycle(k)
    PROVE  TypeOK' /\ GateOK' /\ Flags' /\ NoneStarts
<1>1. GateType
  BY DEF TypeOK, GateType
<1>2. /\ GateType' /\ GateOK'
      /\ at[k] = "woken" /\ at'[k] = "cycle"
      /\ \A j \in Tasks \ {k} :
            at'[j] = at[j] \/ (at[j] = "gate" /\ at'[j] = "woken")
  BY <1>1, EnterStep
<1>3. \A j \in Tasks : at'[j] \in Engaged <=> at[j] \in Engaged
  BY <1>2 DEF Engaged
<1>4. syncing' = syncing
  BY DEF EnterCycle, perTenant
<1>5. TypeOK'
  BY <1>2 DEF TypeOK, GateType, EnterCycle, perTenant
<1> QED BY <1>2, <1>3, <1>4, <1>5, FlagsKept DEF NoneStarts

LEMMA LoopLivesInduction ==
    TypeOK /\ GateOK /\ Flags /\ LoopLives /\ [Next]_vars => LoopLives'
<1> SUFFICES ASSUME TypeOK, GateOK, Flags, LoopLives, [Next]_vars,
                    NEW s \in Tenants, service'[s] # "up"
             PROVE  at'[loop(s)] = "none"
  BY DEF LoopLives
<1> USE TaskFacts DEF LoopLives
<1>1. ASSUME NEW t \in Tenants,
             LoopRests(t) \/ LoopLooksAgain(t) \/ LoopWakes(t) \/ TriggerRejected(t)
               \/ TriggerAccepted(t)
      PROVE  at'[loop(s)] = "none"
  BY <1>1 DEF LoopRests, LoopLooksAgain, LoopWakes, TriggerRejected, TriggerAccepted,
              perTenant, TypeOK
<1>2. ASSUME NEW t \in Tenants, LoopStarts(t) \/ TriggerStarts(t)
      PROVE  at'[loop(s)] = "none"
  <2>1. NoneStarts
    BY <1>2, BeginStep DEF LoopStarts, TriggerStarts
  <2> QED BY <1>2, <2>1 DEF NoneStarts, LoopStarts, TriggerStarts
<1>3. ASSUME NEW t \in Tenants, LoopSucceeds(t) \/ LoopFails(t) \/ TriggerEnds(t)
      PROVE  at'[loop(s)] = "none"
  <2>1. \A place \in {"awake", "asleep", "none"} : place \in Outside
    BY DEF Outside
  <2>2. NoneStarts
    BY <1>3, <2>1, EndStep DEF LoopSucceeds, LoopFails, TriggerEnds
  <2> QED BY <1>3, <2>2 DEF NoneStarts, LoopSucceeds, LoopFails, TriggerEnds
<1>4. ASSUME NEW t \in Tenants, EnterCycle(loop(t)) \/ EnterCycle(trigger(t))
      PROVE  at'[loop(s)] = "none"
  <2>1. NoneStarts
    BY <1>4, PassStep
  <2> QED BY <1>4, <2>1 DEF NoneStarts, EnterCycle, perTenant
<1>5. ASSUME NEW t \in Tenants, StartSucceeds(t)
      PROVE  at'[loop(s)] = "none"
  BY <1>5 DEF StartSucceeds, TypeOK
<1>6. ASSUME NEW t \in Tenants, StartFails(t) \/ InitializeBegins(t) \/ InitializeAgain(t)
                                \/ CronTick(t)
      PROVE  at'[loop(s)] = "none"
  BY <1>6 DEF StartFails, InitializeBegins, InitializeAgain, CronTick, TypeOK
<1>7. CASE Drain \/ Boot \/ UNCHANGED vars
  BY <1>7 DEF Drain, Boot, vars, perTenant
<1>8. CASE Exit \/ Kill
  BY <1>8 DEF Exit, Kill, Down
<1> HIDE TaskFacts
<1> HIDE DEF LoopLives
<1> QED BY <1>1, <1>2, <1>3, <1>4, <1>5, <1>6, <1>7, <1>8
        DEF Next, Loop, Trigger, Start, Requests

LEMMA Induction ==
    TypeOK /\ GateOK /\ Flags /\ LoopLives /\ [Next]_vars => TypeOK' /\ GateOK' /\ Flags'
<1> SUFFICES ASSUME TypeOK, GateOK, Flags, LoopLives, [Next]_vars
             PROVE  TypeOK' /\ GateOK' /\ Flags'
  OBVIOUS
<1> USE TaskFacts
<1>1. ASSUME NEW t \in Tenants, LoopRests(t)
      PROVE  TypeOK' /\ GateOK' /\ Flags'
  <2>1. MovesOutside(loop(t)) /\ syncing' = syncing
    BY <1>1 DEF LoopRests, MovesOutside, Outside, perTenant
  <2>2. GateType' /\ GateOK' /\ Flags'
    BY <2>1, MoveStep
  <2> QED BY <1>1, <2>2 DEF LoopRests, TypeOK, GateType, perTenant
<1>2. ASSUME NEW t \in Tenants, LoopStarts(t)
      PROVE  TypeOK' /\ GateOK' /\ Flags'
  <2>1. GateType' /\ GateOK' /\ Flags'
    BY <1>2, BeginStep DEF LoopStarts
  <2> QED BY <1>2, <2>1 DEF LoopStarts, TypeOK, GateType
<1>3. ASSUME NEW t \in Tenants, LoopLooksAgain(t)
      PROVE  TypeOK' /\ GateOK' /\ Flags'
  <2>1. GateType' /\ GateOK' /\ Flags'
    BY <1>3, StillStep DEF LoopLooksAgain, perTenant
  <2> QED BY <1>3, <2>1 DEF LoopLooksAgain, TypeOK, GateType, perTenant
<1>4. ASSUME NEW t \in Tenants, LoopWakes(t)
      PROVE  TypeOK' /\ GateOK' /\ Flags'
  <2>1. MovesOutside(loop(t)) /\ syncing' = syncing
    BY <1>4 DEF LoopWakes, MovesOutside, Outside, perTenant
  <2>2. GateType' /\ GateOK' /\ Flags'
    BY <2>1, MoveStep
  <2> QED BY <1>4, <2>2 DEF LoopWakes, TypeOK, GateType, perTenant
<1>5. ASSUME NEW t \in Tenants, LoopSucceeds(t)
      PROVE  TypeOK' /\ GateOK' /\ Flags'
  <2>1. GateType' /\ GateOK' /\ Flags'
    <3>1. "awake" \in Outside
      BY DEF Outside
    <3> QED BY <1>5, <3>1, EndStep DEF LoopSucceeds
  <2>2. due' \in [Tenants -> BOOLEAN]
    BY <1>5 DEF LoopSucceeds, TypeOK
  <2> QED BY <1>5, <2>1, <2>2 DEF LoopSucceeds, TypeOK, GateType
<1>6. ASSUME NEW t \in Tenants, LoopFails(t)
      PROVE  TypeOK' /\ GateOK' /\ Flags'
  <2>1. GateType' /\ GateOK' /\ Flags'
    <3>1. "asleep" \in Outside
      BY DEF Outside
    <3> QED BY <1>6, <3>1, EndStep DEF LoopFails
  <2> QED BY <1>6, <2>1 DEF LoopFails, TypeOK, GateType
<1>7. ASSUME NEW t \in Tenants, TriggerRejected(t)
      PROVE  TypeOK' /\ GateOK' /\ Flags'
  <2>1. MovesOutside(trigger(t)) /\ syncing' = syncing
    BY <1>7 DEF TriggerRejected, MovesOutside, Outside, perTenant
  <2>2. GateType' /\ GateOK' /\ Flags'
    BY <2>1, MoveStep
  <2> QED BY <1>7, <2>2 DEF TriggerRejected, TypeOK, GateType, perTenant
<1>8. ASSUME NEW t \in Tenants, TriggerStarts(t)
      PROVE  TypeOK' /\ GateOK' /\ Flags'
  <2>1. GateType' /\ GateOK' /\ Flags'
    BY <1>8, BeginStep DEF TriggerStarts
  <2> QED BY <1>8, <2>1 DEF TriggerStarts, TypeOK, GateType
<1>9. ASSUME NEW t \in Tenants, TriggerEnds(t)
      PROVE  TypeOK' /\ GateOK' /\ Flags'
  <2>1. GateType' /\ GateOK' /\ Flags'
    <3>1. "none" \in Outside
      BY DEF Outside
    <3> QED BY <1>9, <3>1, EndStep DEF TriggerEnds
  <2> QED BY <1>9, <2>1 DEF TriggerEnds, TypeOK, GateType
<1>10. ASSUME NEW t \in Tenants, TriggerAccepted(t)
       PROVE  TypeOK' /\ GateOK' /\ Flags'
  <2>1. MovesOutside(trigger(t)) /\ syncing' = syncing
    BY <1>10 DEF TriggerAccepted, MovesOutside, Outside, perTenant
  <2>2. GateType' /\ GateOK' /\ Flags'
    BY <2>1, MoveStep
  <2> QED BY <1>10, <2>2 DEF TriggerAccepted, TypeOK, GateType, perTenant
<1>11. ASSUME NEW t \in Tenants, StartSucceeds(t)
       PROVE  TypeOK' /\ GateOK' /\ Flags'
  <2>1. MovesOutside(loop(t)) /\ syncing' = syncing
    BY <1>11 DEF StartSucceeds, MovesOutside, Outside, LoopLives
  <2>2. GateType' /\ GateOK' /\ Flags'
    BY <2>1, MoveStep
  <2> QED BY <1>11, <2>2 DEF StartSucceeds, TypeOK, GateType
<1>12. ASSUME NEW t \in Tenants, StartFails(t) \/ InitializeBegins(t) \/ InitializeAgain(t)
                                 \/ CronTick(t)
       PROVE  TypeOK' /\ GateOK' /\ Flags'
  <2>1. UNCHANGED <<at, gate, syncing>>
    BY <1>12 DEF StartFails, InitializeBegins, InitializeAgain, CronTick
  <2>2. GateType' /\ GateOK' /\ Flags'
    BY <2>1, StillStep
  <2> QED BY <1>12, <2>1, <2>2
          DEF StartFails, InitializeBegins, InitializeAgain, CronTick, TypeOK, GateType
<1>13. CASE Drain
  <2>1. GateType' /\ GateOK' /\ Flags'
    BY <1>13, StillStep DEF Drain, perTenant
  <2> QED BY <1>13, <2>1 DEF Drain, TypeOK, GateType, perTenant
<1>14. CASE Exit \/ Kill
  <2>1. Fresh' /\ due' = due /\ app' = "down" /\ stops' \in 0 .. MaxStops
    BY <1>14 DEF Exit, Kill, Down, Fresh, TypeOK
  <2>2. GateType' /\ GateOK' /\ Flags'
    BY <2>1, FreshIsFine, PTL
  <2> QED BY <2>1, <2>2 DEF Fresh, TypeOK, GateType
<1>15. CASE Boot
  <2>1. GateType' /\ GateOK' /\ Flags'
    BY <1>15, StillStep DEF Boot, perTenant
  <2> QED BY <1>15, <2>1 DEF Boot, TypeOK, GateType, perTenant
<1>16. CASE UNCHANGED vars
  <2>1. GateType' /\ GateOK' /\ Flags'
    BY <1>16, StillStep DEF vars, perTenant
  <2> QED BY <1>16, <2>1 DEF vars, TypeOK, GateType, perTenant
<1>17. ASSUME NEW t \in Tenants, EnterCycle(loop(t)) \/ EnterCycle(trigger(t))
       PROVE  TypeOK' /\ GateOK' /\ Flags'
  BY <1>17, PassStep
<1> HIDE TaskFacts
<1> QED BY <1>1, <1>2, <1>3, <1>4, <1>5, <1>6, <1>7, <1>8, <1>9, <1>10, <1>11,
           <1>12, <1>13, <1>14, <1>15, <1>16, <1>17
        DEF Next, Loop, Trigger, Start, Requests

-----------------------------------------------------------------------------
(* The theorems                                                            *)

\* The invariant that carries the others.
THEOREM Invariance == Spec => []IInv
<1>1. Init => IInv
  BY Initially
<1>2. IInv /\ [Next]_vars => IInv'
  BY Induction, LoopLivesInduction DEF IInv
<1> QED BY <1>1, <1>2, PTL DEF Spec

\* Every variable keeps its type.
THEOREM TypeCorrect == Spec => []TypeOK
<1>1. IInv => TypeOK
  BY DEF IInv
<1> QED BY <1>1, Invariance, PTL

\* However many tenants there are, none ever runs two cycles at once.
THEOREM CyclesExclude == Spec => []OneCyclePerTenant
<1>1. IInv => OneCyclePerTenant
  BY DEF IInv, Flags, OneEngaged, OneCyclePerTenant, Engaged
<1> QED BY <1>1, Invariance, PTL

\* The flag of _run_sync_cycle_guarded never outlives the cycle that set it.
THEOREM FlagStaysTrue == Spec => []FlagIsTrue
<1>1. IInv => FlagIsTrue
  BY DEF IInv, Flags
<1> QED BY <1>1, Invariance, PTL

LEMMA HoldersSplit ==
    /\ IsFiniteSet(InCycle) /\ IsFiniteSet(Woken)
    /\ Cardinality(InCycle) \in Nat /\ Cardinality(Woken) \in Nat
    /\ Cardinality(Holders) = Cardinality(InCycle) + Cardinality(Woken)
<1>1. InCycle \in SUBSET Tasks /\ Woken \in SUBSET Tasks
  BY DEF InCycle, Woken
<1>2. IsFiniteSet(InCycle) /\ IsFiniteSet(Woken)
  BY <1>1, TaskFacts, FS_Subset
<1>3. Holders = InCycle \cup Woken /\ InCycle \cap Woken = {}
  BY DEF Holders, InCycle, Woken
<1>4. Cardinality(InCycle \cup Woken)
        = Cardinality(InCycle) + Cardinality(Woken) - Cardinality(InCycle \cap Woken)
  BY <1>2, FS_Union
<1>5. Cardinality(InCycle) \in Nat /\ Cardinality(Woken) \in Nat
  BY <1>2, FS_CardinalityType
<1>6. Cardinality(InCycle \cap Woken) = 0
  BY <1>3, FS_EmptySet
<1> QED BY <1>2, <1>3, <1>4, <1>5, <1>6

\* No permit of the gate is lost or made, by however many cycles, failures and
\* wake-ups, and none is left idle beside a sleeping waiter.
THEOREM PermitsStayConserved == Spec => []PermitsAreConserved
<1>1. IInv => PermitsAreConserved
  BY HoldersSplit DEF IInv, TypeOK, GateOK, Accounted, NoneIdle, PermitsAreConserved
<1> QED BY <1>1, Invariance, PTL

\* Never more cycles at once than the gate admits, over all tenants.
THEOREM GateStaysRespected == Spec => []GateIsRespected
<1>1. IInv => GateIsRespected
  BY HoldersSplit DEF IInv, TypeOK, GateOK, Accounted, GateIsRespected
<1> QED BY <1>1, Invariance, PTL

-----------------------------------------------------------------------------
\* The record of a sync.  The states a scheduler brings it to are those of
\* RecordInv, which every step keeps.
Phases == {"none", "initializing", "discovering", "fetching", "interrupted", "completed", "failed"}
Record == [phase : Phases, discovered : SUBSET Pages, pending : SUBSET Pages,
           processed : SUBSET Pages, failed : SUBSET Pages, stats : [Counters -> Nat]]

Counted(p) == p.processed \cap p.failed = {} /\ \A k \in Counters : p.stats[k] = Cardinality(p[k])

LEMMA Sizes == \A urls \in SUBSET Pages : Cardinality(urls) \in Nat
  BY PagesAssumption, FS_Subset, FS_CardinalityType

LEMMA Recount ==
    ASSUME NEW p \in Record, NEW counters \in SUBSET Counters,
           p.processed \cap p.failed = {},
           \A k \in Counters \ counters : p.stats[k] = Cardinality(p[k])
    PROVE  LET q == Recounted(p, counters)
           IN  /\ q \in Record /\ Counted(q)
               /\ q.phase = p.phase /\ q.processed = p.processed /\ q.pending = p.pending
               /\ q.discovered = p.discovered /\ q.failed = p.failed
<1> DEFINE new == [k \in Counters |-> IF k \in counters THEN Cardinality(p[k]) ELSE p.stats[k]]
           q == Recounted(p, counters)
<1>1. \A k \in Counters : p[k] \in SUBSET Pages
  BY DEF Record, Counters
<1>2. new \in [Counters -> Nat]
  BY <1>1, Sizes DEF Record
<1>3. q = [p EXCEPT !.stats = new]
  BY DEF Recounted
<1>4. \A k \in Counters : new[k] = Cardinality(p[k])
  OBVIOUS
<1> HIDE DEF new
<1>5. /\ q \in Record /\ q.stats = new
      /\ q.phase = p.phase /\ q.processed = p.processed /\ q.pending = p.pending
      /\ q.discovered = p.discovered /\ q.failed = p.failed
  BY <1>2, <1>3 DEF Record
<1>6. \A k \in Counters : q[k] = p[k]
  BY <1>5 DEF Counters
<1> HIDE DEF q
<1>7. Counted(q)
  BY <1>4, <1>5, <1>6 DEF Counted
<1> QED BY <1>5, <1>7 DEF q

\* Every use of a record keeps its counts true.
LEMMA Discovering ==
    ASSUME NEW p \in Record, Counted(p), NEW urls \in SUBSET Pages
    PROVE  /\ AddDiscovered(p, urls) \in Record /\ Counted(AddDiscovered(p, urls))
           /\ Enqueue(p, urls) \in Record /\ Counted(Enqueue(p, urls))
<1> DEFINE found == [p EXCEPT !.discovered = @ \cup urls, !.pending = @ \cup (urls \ p.discovered)]
           queued == [p EXCEPT !.pending = @ \cup (urls \ p.processed)]
<1>1. /\ p.processed \cap p.failed = {} /\ \A k \in Counters : p.stats[k] = Cardinality(p[k])
  BY DEF Counted
<1>2. /\ found \in Record /\ found.stats = p.stats /\ found.processed \cap found.failed = {}
      /\ found.processed = p.processed /\ found.failed = p.failed
  BY <1>1 DEF Record
<1>3. /\ queued \in Record /\ queued.stats = p.stats /\ queued.processed \cap queued.failed = {}
      /\ queued.processed = p.processed /\ queued.failed = p.failed
      /\ queued.discovered = p.discovered
  BY <1>1 DEF Record
<1> HIDE DEF found, queued
<1>4. Counters = {"discovered", "pending", "processed", "failed"}
  BY DEF Counters
<1>5. LET q == Recounted(found, {"discovered", "pending"}) IN q \in Record /\ Counted(q)
  <2>1. \A k \in Counters \ {"discovered", "pending"} : found.stats[k] = Cardinality(found[k])
    BY <1>1, <1>2, <1>4
  <2> QED BY <1>2, <1>4, <2>1, Recount
<1>6. LET q == Recounted(queued, {"pending"}) IN q \in Record /\ Counted(q)
  <2>1. \A k \in Counters \ {"pending"} : queued.stats[k] = Cardinality(queued[k])
    BY <1>1, <1>3, <1>4
  <2> QED BY <1>3, <1>4, <2>1, Recount
<1>7. AddDiscovered(p, urls) \in Record /\ Counted(AddDiscovered(p, urls))
  BY <1>5 DEF AddDiscovered, found
<1>8. Enqueue(p, urls) \in Record /\ Counted(Enqueue(p, urls))
  BY <1>6 DEF Enqueue, queued
<1> QED BY <1>7, <1>8

LEMMA Marking ==
    ASSUME NEW p \in Record, Counted(p), NEW url \in Pages
    PROVE  /\ MarkProcessed(p, url) \in Record /\ Counted(MarkProcessed(p, url))
           /\ MarkFailed(p, url) \in Record /\ Counted(MarkFailed(p, url))
           /\ MarkSkipped(p, url) \in Record /\ Counted(MarkSkipped(p, url))
           /\ MarkProcessed(p, url).phase = p.phase
           /\ MarkProcessed(p, url).processed = p.processed \cup {url}
<1> DEFINE good == [p EXCEPT !.pending = @ \ {url}, !.processed = @ \cup {url}, !.failed = @ \ {url}]
           bad == [p EXCEPT !.pending = @ \ {url}, !.processed = @ \ {url}, !.failed = @ \cup {url}]
           gone == [p EXCEPT !.pending = @ \ {url}]
<1>1. /\ p.processed \cap p.failed = {} /\ \A k \in Counters : p.stats[k] = Cardinality(p[k])
  BY DEF Counted
<1>2. /\ good \in Record /\ good.stats = p.stats /\ good.processed \cap good.failed = {}
      /\ good.discovered = p.discovered /\ good.phase = p.phase
      /\ good.processed = p.processed \cup {url}
  BY <1>1 DEF Record
<1>3. /\ bad \in Record /\ bad.stats = p.stats /\ bad.processed \cap bad.failed = {}
      /\ bad.discovered = p.discovered
  BY <1>1 DEF Record
<1>4. /\ gone \in Record /\ gone.stats = p.stats /\ gone.processed \cap gone.failed = {}
      /\ gone.processed = p.processed /\ gone.failed = p.failed
      /\ gone.discovered = p.discovered
  BY <1>1 DEF Record
<1> HIDE DEF good, bad, gone
<1>5. Counters = {"discovered", "pending", "processed", "failed"}
  BY DEF Counters
<1>6. \A k \in Counters \ {"pending", "processed", "failed"} :
         good.stats[k] = Cardinality(good[k]) /\ bad.stats[k] = Cardinality(bad[k])
  BY <1>1, <1>2, <1>3, <1>5
<1>7. LET q == Recounted(good, {"pending", "processed", "failed"})
      IN  q \in Record /\ Counted(q) /\ q.phase = good.phase /\ q.processed = good.processed
  BY <1>2, <1>5, <1>6, Recount
<1>8. LET q == Recounted(bad, {"pending", "processed", "failed"}) IN q \in Record /\ Counted(q)
  BY <1>3, <1>5, <1>6, Recount
<1>9. LET q == Recounted(gone, {"pending"}) IN q \in Record /\ Counted(q)
  <2>1. \A k \in Counters \ {"pending"} : gone.stats[k] = Cardinality(gone[k])
    BY <1>1, <1>4, <1>5
  <2> QED BY <1>4, <1>5, <2>1, Recount
<1> QED BY <1>2, <1>7, <1>8, <1>9 DEF MarkProcessed, MarkFailed, MarkSkipped, good, bad, gone

LEMMA NewRecords ==
    /\ CreateNew \in Record /\ Counted(CreateNew) /\ CreateNew.phase = "initializing"
    /\ CreateNew.processed = {}
    /\ Nothing \in Record /\ Counted(Nothing) /\ Nothing.phase = "none" /\ Nothing.processed = {}
<1> DEFINE nought == [k \in Counters |-> 0]
           none == {}
<1>1. nought \in [Counters -> Nat] /\ \A k \in Counters : nought[k] = 0
  OBVIOUS
<1>2. none \in SUBSET Pages /\ none \cap none = none /\ Cardinality(none) = 0
  BY FS_EmptySet
<1>3. CreateNew = [phase |-> "initializing", discovered |-> none, pending |-> none,
                   processed |-> none, failed |-> none, stats |-> nought]
  BY DEF CreateNew
<1> HIDE DEF nought, none
<1>4. CreateNew \in Record /\ CreateNew.stats = nought
      /\ CreateNew.phase = "initializing" /\ CreateNew.processed = none
      /\ CreateNew.failed = none /\ CreateNew.pending = none /\ CreateNew.discovered = none
  BY <1>1, <1>2, <1>3 DEF Record, Phases
<1>5. Counted(CreateNew)
  BY <1>1, <1>2, <1>4 DEF Counted, Counters, none
<1>6. /\ Nothing \in Record /\ Nothing.stats = nought
      /\ Nothing.phase = "none" /\ Nothing.processed = none
      /\ Nothing.failed = none /\ Nothing.pending = none /\ Nothing.discovered = none
  BY <1>4 DEF Nothing, Record, Phases
<1>7. Counted(Nothing)
  BY <1>1, <1>2, <1>6 DEF Counted, Counters, none
<1> QED BY <1>4, <1>5, <1>6, <1>7 DEF none

States == [at : {"idle", "cycle"}, active : Record, stored : Record, handled : SUBSET Pages]

\* A record is in memory as soon as a cycle stands; what it counts is what the
\* database counts or more, as long as the stored record can be resumed; a final
\* record in the database is that in memory, or one that has counted nothing is.
RecordInv(s) ==
    /\ s \in States /\ Counted(s.active) /\ Counted(s.stored)
    /\ s.active.phase = "none" => s.active = Nothing /\ s.at = "idle"
    /\ s.at = "cycle" => s.handled \subseteq s.active.processed
    /\ s.stored.phase \in CanResume /\ s.active # Nothing
          => s.stored.processed \subseteq s.active.processed
    /\ s.stored.phase \in Terminal /\ s.active # Nothing
          => s.active.phase \in Terminal \/ (s.at = "idle" /\ s.active.processed = {})
    /\ s.stored.phase = "completed" /\ s.active = Nothing => s.handled \subseteq s.stored.processed

LEMMA Turning ==
    ASSUME NEW p \in Record, Counted(p), NEW phase \in Phases
    PROVE  /\ TurnedTo(p, phase) \in Record /\ Counted(TurnedTo(p, phase))
           /\ TurnedTo(p, phase).phase = phase /\ TurnedTo(p, phase).processed = p.processed
<1> DEFINE q == TurnedTo(p, phase)
<1>1. /\ q \in Record /\ q.phase = phase /\ q.stats = p.stats /\ q.discovered = p.discovered
      /\ q.pending = p.pending /\ q.processed = p.processed /\ q.failed = p.failed
  BY DEF TurnedTo, Record
<1> HIDE DEF q
<1>2. Counted(q)
  BY <1>1 DEF Counted, Counters
<1> QED BY <1>1, <1>2 DEF q

LEMMA Loading ==
    ASSUME NEW s, RecordInv(s), s.at = "idle"
    PROVE  LET p == LoadOrCreate(s)
           IN  /\ p \in Record /\ Counted(p) /\ p.phase # "none"
               /\ s.stored.phase \in CanResume => s.stored.processed \subseteq p.processed
               /\ s.stored.phase \in Terminal => p.phase \in Terminal \/ p.processed = {}
<1>1. s.active \in Record /\ s.stored \in Record /\ "none" \notin CanResume
  BY DEF RecordInv, States, CanResume
<1>2. CASE s.active # Nothing
  BY <1>1, <1>2 DEF LoadOrCreate, RecordInv
<1>3. CASE s.active = Nothing /\ s.stored.phase \in CanResume
  BY <1>1, <1>3 DEF LoadOrCreate, RecordInv, CanResume, Terminal
<1>4. CASE s.active = Nothing /\ s.stored.phase \notin CanResume
  BY <1>1, <1>4, NewRecords DEF LoadOrCreate
<1> QED BY <1>2, <1>3, <1>4

\* A cycle is prepared in memory: nothing is handled yet, and the record works on.
LEMMA Preparing ==
    ASSUME NEW s, RecordInv(s), s.at = "idle"
    PROVE  LET q == Prepared(s)
           IN  /\ q \in States /\ q.at = "idle" /\ q.stored = s.stored /\ q.handled = {}
               /\ Counted(q.active) /\ q.active.phase \notin {"none", "initializing", "interrupted"}
               /\ s.stored.phase \in CanResume => s.stored.processed \subseteq q.active.processed
               /\ s.stored.phase \in Terminal
                     => q.active.phase \in Terminal \/ q.active.processed = {}
<1> DEFINE p == LoadOrCreate(s)
           new == CASE p.phase = "interrupted" -> TurnedTo(p, "fetching")
                    [] p.phase = "initializing" -> TurnedTo(p, "discovering")
                    [] OTHER -> p
           none == {}
<1>1. /\ p \in Record /\ Counted(p) /\ p.phase # "none"
      /\ s.stored.phase \in CanResume => s.stored.processed \subseteq p.processed
      /\ s.stored.phase \in Terminal => p.phase \in Terminal \/ p.processed = {}
  BY Loading
<1>2. Prepared(s) = [s EXCEPT !.handled = none, !.active = new]
  BY DEF Prepared
<1>3. {"interrupted", "initializing"} \cap Terminal = {} /\ {"fetching", "discovering"} \subseteq Phases
  BY DEF Terminal, Phases
<1> HIDE DEF p
<1>4. /\ new \in Record /\ Counted(new)
      /\ new.phase \notin {"none", "initializing", "interrupted"} /\ new.processed = p.processed
      /\ p.phase \in Terminal => new.phase \in Terminal
  <2>1. CASE p.phase = "interrupted"
    <3>1. new = TurnedTo(p, "fetching")
      BY <2>1
    <3> QED BY <1>1, <1>3, <2>1, <3>1, Turning
  <2>2. CASE p.phase = "initializing"
    <3>1. new = TurnedTo(p, "discovering")
      BY <2>2
    <3> QED BY <1>1, <1>3, <2>2, <3>1, Turning
  <2>3. CASE p.phase \notin {"interrupted", "initializing"}
    <3>1. new = p
      BY <2>3
    <3> QED BY <1>1, <2>3, <3>1
  <2> QED BY <2>1, <2>2, <2>3
<1> HIDE DEF new
<1>5. s \in States /\ none \in SUBSET Pages
  BY DEF RecordInv
<1> HIDE DEF none
<1>6. LET q == Prepared(s)
      IN  q \in States /\ q.at = s.at /\ q.stored = s.stored /\ q.handled = none /\ q.active = new
  BY <1>2, <1>4, <1>5 DEF States
<1> QED BY <1>1, <1>4, <1>6 DEF none

\* The steps while no cycle stands.
LEMMA OpeningSteps ==
    ASSUME NEW s, RecordInv(s), s.at = "idle", NEW t \in {Begun(s)} \cup NotSaved(Prepared(s))
    PROVE  RecordInv(t) /\ KeptFrom(s, t)
<1> DEFINE q == Prepared(s)
<1>1. /\ q \in States /\ q.at = "idle" /\ q.stored = s.stored /\ q.handled = {}
      /\ Counted(q.active) /\ q.active.phase \notin {"none", "initializing", "interrupted"}
      /\ s.stored.phase \in CanResume => s.stored.processed \subseteq q.active.processed
      /\ s.stored.phase \in Terminal => q.active.phase \in Terminal \/ q.active.processed = {}
  BY Preparing
<1>2. {"discovering", "fetching"} \subseteq CanResume /\ q.active \in Record
  BY <1>1 DEF CanResume, States
<1>3. Counted(s.stored)
  BY DEF RecordInv
<1> HIDE DEF q
<1>4. CASE t = q
  BY <1>1, <1>2, <1>3, <1>4 DEF RecordInv, KeptFrom
<1>5. ASSUME t \in States, t.active = q.active, t.stored = q.active, t.handled = {}
      PROVE  RecordInv(t) /\ KeptFrom(s, t)
  BY <1>1, <1>2, <1>5 DEF RecordInv, KeptFrom
<1>6. CASE t = Saved(q)
  <2>1. t \in States /\ t.active = q.active /\ t.stored = q.active /\ t.handled = q.handled
    BY <1>1, <1>2, <1>6 DEF Saved, States
  <2> QED BY <1>1, <1>5, <2>1
<1>7. CASE t = Begun(s)
  <2>1. t = [q EXCEPT !.stored = q.active, !.at = "cycle"]
    BY <1>7 DEF Begun, Saved, q
  <2>2. t \in States /\ t.active = q.active /\ t.stored = q.active /\ t.handled = q.handled
    BY <1>1, <1>2, <2>1 DEF States
  <2> QED BY <1>1, <1>5, <2>2
<1> QED BY <1>4, <1>6, <1>7 DEF NotSaved, q

\* A cycle that ends: the record is final in memory or in the database or both.
LEMMA Closing ==
    ASSUME NEW s, RecordInv(s), s.at = "cycle", NEW phase \in Terminal,
           NEW t \in States, t.at = "idle", t.handled = s.handled,
           \/ /\ t.active = TurnedTo(s.active, phase)
              /\ t.stored \in {s.stored, TurnedTo(s.active, phase)}
           \/ t.active = Nothing /\ t.stored = TurnedTo(s.active, phase)
           \/ t.active = s.active /\ s.active.phase \in Terminal /\ t.stored = s.stored
    PROVE  RecordInv(t) /\ KeptFrom(s, t)
<1> DEFINE final == TurnedTo(s.active, phase)
<1>1. /\ s \in States /\ s.active \in Record /\ s.stored \in Record
      /\ Counted(s.active) /\ Counted(s.stored) /\ phase \in Phases
      /\ s.active.phase # "none" /\ s.active # Nothing /\ s.handled \subseteq s.active.processed
  BY NewRecords DEF RecordInv, States, Terminal, Phases
<1>2. final \in Record /\ Counted(final) /\ final.phase = phase
      /\ final.processed = s.active.processed
  BY <1>1, Turning
<1>3. /\ Counted(Nothing) /\ Nothing.phase = "none" /\ "none" \notin Terminal /\ phase \notin CanResume /\ phase # "none"
      /\ {"discovering", "fetching"} \subseteq CanResume
  BY NewRecords DEF Terminal, CanResume
<1>4. s.stored.phase \in CanResume => s.stored.processed \subseteq s.active.processed
  BY <1>1 DEF RecordInv
<1> HIDE DEF final
<1>5. CASE t.active = final /\ t.stored = s.stored
  BY <1>1, <1>2, <1>3, <1>4, <1>5 DEF RecordInv, KeptFrom, CanResume
<1>6. CASE t.active = final /\ t.stored = final
  BY <1>1, <1>2, <1>3, <1>4, <1>6 DEF RecordInv, KeptFrom
<1>7. CASE t.active = Nothing /\ t.stored = final
  BY <1>1, <1>2, <1>3, <1>4, <1>7 DEF RecordInv, KeptFrom
<1>8. CASE t.active = s.active /\ s.active.phase \in Terminal /\ t.stored = s.stored
  BY <1>1, <1>3, <1>4, <1>8 DEF RecordInv, KeptFrom, CanResume
<1> QED BY <1>5, <1>6, <1>7, <1>8 DEF final

LEMMA FinalIsTyped ==
    ASSUME NEW s, RecordInv(s), NEW phase \in Terminal
    PROVE  TurnedTo(s.active, phase) \in Record /\ TurnedTo(s.active, phase).phase = phase
  BY Turning DEF RecordInv, States, Terminal, Phases

LEMMA FailingStep ==
    ASSUME NEW s, RecordInv(s), s.at = "cycle", NEW t \in {Failed(s)} \cup FailedUnsaved(s)
    PROVE  RecordInv(t) /\ KeptFrom(s, t)
<1> DEFINE final == TurnedTo(s.active, "failed")
<1>1. s \in States /\ "failed" \in Terminal /\ final \in Record /\ Nothing \in Record
  BY FinalIsTyped, NewRecords DEF RecordInv, Terminal
<1> HIDE DEF final
<1>2. CASE ~MayTurn(s.active, "failed")
  <2>1. t = [s EXCEPT !.at = "idle"] /\ s.active.phase \in Terminal
    BY <1>2 DEF Failed, FailedUnsaved, MayTurn
  <2>2. /\ t \in States /\ t.at = "idle" /\ t.handled = s.handled /\ t.active = s.active
        /\ t.stored = s.stored
    BY <1>1, <2>1 DEF States
  <2> QED BY <1>1, <2>1, <2>2, Closing
<1>3. CASE MayTurn(s.active, "failed")
  <2>1. \/ t = [s EXCEPT !.active = Nothing, !.stored = final, !.at = "idle"]
        \/ t = [s EXCEPT !.active = final, !.at = "idle"]
        \/ t = [s EXCEPT !.active = final, !.stored = final, !.at = "idle"]
    <3>1. /\ Saved([s EXCEPT !.active = final]) = [s EXCEPT !.active = final, !.stored = final]
          /\ [s EXCEPT !.active = TurnedTo(@, "failed")] = [s EXCEPT !.active = final]
      BY <1>1 DEF Saved, States, final
    <3>2. Failed(s) = [s EXCEPT !.active = Nothing, !.stored = final, !.at = "idle"]
      BY <1>1, <1>3, <3>1 DEF Failed, Dropped, States
    <3>3. FailedUnsaved(s) = {[u EXCEPT !.at = "idle"] :
                                u \in {[s EXCEPT !.active = final],
                                       [s EXCEPT !.active = final, !.stored = final]}}
      BY <1>3, <3>1 DEF FailedUnsaved, NotSaved
    <3> QED BY <1>1, <3>2, <3>3 DEF States
  <2>2. /\ t \in States /\ t.at = "idle" /\ t.handled = s.handled
        /\ \/ t.active = final /\ t.stored \in {s.stored, final}
           \/ t.active = Nothing /\ t.stored = final
    BY <1>1, <2>1 DEF States
  <2> QED BY <1>1, <2>2, Closing DEF final
<1> QED BY <1>2, <1>3

LEMMA CompletingStep ==
    ASSUME NEW s, RecordInv(s), s.at = "cycle", NEW t \in {Completed(s)} \cup CompletedUnsaved(s)
    PROVE  RecordInv(t) /\ KeptFrom(s, t)
<1> DEFINE final == TurnedTo(s.active, "completed")
<1>1. /\ s \in States /\ "completed" \in Terminal /\ final \in Record /\ Nothing \in Record
      /\ final.phase = "completed"
  BY FinalIsTyped, NewRecords DEF RecordInv, Terminal
<1> HIDE DEF final
<1>2. CASE ~MayTurn(s.active, "completed")
  <2>1. t \in {Failed(s)} \cup FailedUnsaved(s)
    BY <1>2 DEF Completed, CompletedUnsaved
  <2> QED BY <2>1, FailingStep
<1>3. CASE MayTurn(s.active, "completed")
  <2>1. /\ [s EXCEPT !.active = TurnedTo(@, "completed")] = [s EXCEPT !.active = final]
        /\ Saved([s EXCEPT !.active = final]) = [s EXCEPT !.active = final, !.stored = final]
    BY <1>1 DEF Saved, States, final
  <2>2. Completed(s) = [s EXCEPT !.active = Nothing, !.stored = final, !.at = "idle"]
    BY <1>1, <1>3, <2>1 DEF Completed, Dropped, States
  <2>3. CompletedUnsaved(s) = {Failed(u) : u \in {[s EXCEPT !.active = final],
                                                  [s EXCEPT !.active = final, !.stored = final]}}
    BY <1>3, <2>1 DEF CompletedUnsaved, NotSaved
  <2>4. ASSUME NEW u \in States, u.active = final
        PROVE  Failed(u) = [u EXCEPT !.at = "idle"]
    BY <1>1, <2>4 DEF Failed, MayTurn, Terminal
  <2>5. /\ [s EXCEPT !.active = final] \in States
        /\ [s EXCEPT !.active = final, !.stored = final] \in States
        /\ [s EXCEPT !.active = final].active = final
        /\ [s EXCEPT !.active = final, !.stored = final].active = final
    BY <1>1 DEF States
  <2>6. \/ t = [s EXCEPT !.active = Nothing, !.stored = final, !.at = "idle"]
        \/ t = [[s EXCEPT !.active = final] EXCEPT !.at = "idle"]
        \/ t = [[s EXCEPT !.active = final, !.stored = final] EXCEPT !.at = "idle"]
    BY <2>2, <2>3, <2>4, <2>5
  <2>7. /\ t \in States /\ t.at = "idle" /\ t.handled = s.handled
        /\ \/ t.active = final /\ t.stored \in {s.stored, final}
           \/ t.active = Nothing /\ t.stored = final
    BY <1>1, <2>6 DEF States
  <2> QED BY <1>1, <2>7, Closing DEF final
<1> QED BY <1>2, <1>3

\* The steps of a cycle that goes on.
LEMMA WorkingStep ==
    ASSUME NEW s, RecordInv(s), s.at = "cycle", NEW url \in Pages, NEW t \in Handled(s, url)
    PROVE  RecordInv(t) /\ KeptFrom(s, t)
<1> DEFINE new == MarkProcessed(s.active, url)
           done == s.handled \cup {url}
<1>1. /\ s \in States /\ s.active \in Record /\ s.stored \in Record /\ Counted(s.active)
      /\ Counted(s.stored) /\ s.active.phase # "none" /\ s.active # Nothing
      /\ s.handled \subseteq s.active.processed
      /\ s.stored.phase \in CanResume => s.stored.processed \subseteq s.active.processed
      /\ s.stored.phase \in Terminal => s.active.phase \in Terminal
      /\ Nothing.phase = "none"
  BY NewRecords DEF RecordInv, States
<1>3. new \in Record /\ Counted(new)
  BY <1>1, Marking
<1>4. new.phase = s.active.phase /\ new.processed = s.active.processed \cup {url}
  BY <1>1, Marking
<1>5. done \in SUBSET Pages /\ done \subseteq new.processed
  BY <1>1, <1>4 DEF States
<1>6. \/ t = [s EXCEPT !.active = new, !.handled = done]
      \/ t = [[s EXCEPT !.active = new, !.handled = done] EXCEPT !.stored = new]
  <2>1. [s EXCEPT !.active = MarkProcessed(@, url), !.handled = @ \cup {url}]
          = [s EXCEPT !.active = new, !.handled = done]
    BY <1>1 DEF States
  <2>2. [s EXCEPT !.active = new, !.handled = done].active = new
    BY <1>1 DEF States
  <2> QED BY <2>1, <2>2 DEF Handled, NotSaved, Saved
<1> HIDE DEF new, done
<1>7. /\ t \in States /\ t.at = "cycle" /\ t.active = new /\ t.handled = done
      /\ t.stored \in {s.stored, new}
  BY <1>1, <1>3, <1>5, <1>6 DEF States
<1>8. /\ new # Nothing /\ new.phase # "none" /\ {"discovering", "fetching"} \subseteq CanResume
      /\ "none" \notin CanResume /\ "none" \notin Terminal
  BY <1>1, <1>4 DEF CanResume, Terminal
<1>9. CASE t.stored = s.stored
  BY <1>1, <1>3, <1>4, <1>5, <1>7, <1>8, <1>9 DEF RecordInv, KeptFrom, CanResume
<1>10. CASE t.stored = new
  BY <1>1, <1>3, <1>4, <1>5, <1>7, <1>8, <1>10 DEF RecordInv, KeptFrom
<1> QED BY <1>7, <1>9, <1>10

LEMMA KillStep ==
    ASSUME NEW s, RecordInv(s)
    PROVE  LET t == [Beginning EXCEPT !.stored = s.stored]
           IN  t.at = "idle" /\ RecordInv(t) /\ KeptFrom(s, t)
<1> DEFINE t == [Beginning EXCEPT !.stored = s.stored]
           none == {}
<1>1. /\ s.stored \in Record /\ Counted(s.stored) /\ Nothing \in Record /\ Counted(Nothing)
      /\ none \in SUBSET Pages
  BY NewRecords DEF RecordInv, States
<1>2. t = [at |-> "idle", active |-> Nothing, stored |-> s.stored, handled |-> none]
  BY DEF Beginning
<1> HIDE DEF t, none
<1>3. t \in States /\ t.at = "idle" /\ t.active = Nothing /\ t.stored = s.stored /\ t.handled = none
  BY <1>1, <1>2 DEF States
<1>4. RecordInv(t) /\ KeptFrom(s, t)
  BY <1>1, <1>3 DEF RecordInv, KeptFrom, none
<1> QED BY <1>3, <1>4 DEF t

LEMMA BeginningIsKept == RecordInv(Beginning)
<1> DEFINE none == {}
<1>1. /\ Nothing \in Record /\ Counted(Nothing) /\ none \in SUBSET Pages /\ Nothing.phase = "none"
  BY NewRecords
<1>2. Beginning = [at |-> "idle", active |-> Nothing, stored |-> Nothing, handled |-> none]
  BY DEF Beginning
<1> HIDE DEF none
<1>3. /\ Beginning \in States /\ Beginning.at = "idle" /\ Beginning.active = Nothing
      /\ Beginning.stored = Nothing /\ Beginning.handled = none
  BY <1>1, <1>2 DEF States
<1> QED BY <1>1, <1>3 DEF RecordInv, none

LEMMA StepKeeps ==
    ASSUME NEW s, RecordInv(s), NEW t \in Steps(s)
    PROVE  RecordInv(t) /\ KeptFrom(s, t)
<1>1. CASE t = [Beginning EXCEPT !.stored = s.stored]
  BY <1>1, KillStep
<1>2. CASE s.at = "idle" /\ t \in {Begun(s)} \cup NotSaved(Prepared(s))
  BY <1>2, OpeningSteps
<1>3. CASE s.at = "cycle" /\ t \in {Failed(s)} \cup FailedUnsaved(s)
  BY <1>3, FailingStep
<1>4. CASE s.at = "cycle" /\ t \in {Completed(s)} \cup CompletedUnsaved(s)
  BY <1>4, CompletingStep
<1>5. CASE s.at = "cycle" /\ \E url \in Pages : t \in Handled(s, url)
  BY <1>5, WorkingStep
<1>6. s.at = "idle" \/ s.at = "cycle"
  BY DEF RecordInv, States
<1> QED BY <1>1, <1>2, <1>3, <1>4, <1>5, <1>6 DEF Steps

\* A cycle without an error leaves a final record, and nothing in memory; it is
\* completed when the cycle began with a new record.
LEMMA AfterCycle ==
    ASSUME NEW s, RecordInv(s), s.at = "idle"
    PROVE  LET t == Completed(Begun(s))
           IN  /\ RecordInv(t) /\ t.at = "idle" /\ t.active = Nothing
               /\ t.stored.phase \in Terminal
               /\ s.active = Nothing /\ s.stored.phase \in Terminal
                     => t.stored.phase = "completed"
<1> DEFINE q == Prepared(s)
           begun == Begun(s)
           t == Completed(begun)
           good == TurnedTo(begun.active, "completed")
           bad == TurnedTo(begun.active, "failed")
<1>1. RecordInv(begun)
  BY OpeningSteps
<1>2. q \in States
  BY Preparing
<1>3. begun \in States /\ begun.at = "cycle" /\ begun.active = q.active
  <2>1. begun = [q EXCEPT !.stored = q.active, !.at = "cycle"]
    BY DEF Begun, Saved
  <2> HIDE DEF q, begun
  <2> QED BY <1>2, <2>1 DEF States
<1>4. s.active = Nothing /\ s.stored.phase \in Terminal => q.active.phase = "discovering"
  <2>1. SUFFICES ASSUME s.active = Nothing, s.stored.phase \in Terminal
                 PROVE  q.active.phase = "discovering"
    OBVIOUS
  <2>2. LoadOrCreate(s) = CreateNew
    BY <2>1 DEF LoadOrCreate, CanResume, Terminal
  <2>3. q = [s EXCEPT !.handled = {}, !.active = TurnedTo(CreateNew, "discovering")]
    BY <2>2, NewRecords DEF Prepared
  <2>4. TurnedTo(CreateNew, "discovering").phase = "discovering"
    BY NewRecords, Turning DEF Phases
  <2> HIDE DEF q
  <2> QED BY <2>3, <2>4 DEF RecordInv, States
<1>5. RecordInv(t)
  BY <1>1, <1>3, CompletingStep
<1> HIDE DEF q, begun
<1>6. good \in Record /\ good.phase = "completed" /\ bad \in Record /\ bad.phase = "failed"
  BY <1>1, FinalIsTyped DEF Terminal
<1>7. Nothing \in Record
  BY NewRecords
<1>8. CASE MayTurn(begun.active, "completed")
  <2>1. t = [begun EXCEPT !.active = Nothing, !.stored = good, !.at = "idle"]
    BY <1>3, <1>6, <1>8 DEF Completed, Dropped, Saved, States
  <2> HIDE DEF t, good
  <2>2. t.at = "idle" /\ t.active = Nothing /\ t.stored = good
    BY <1>3, <1>6, <1>7, <2>1 DEF States
  <2> QED BY <1>5, <1>6, <2>2 DEF Terminal, begun, t
<1>9. CASE ~MayTurn(begun.active, "completed")
  <2>1. begun.active.phase = "failed" /\ MayTurn(begun.active, "failed")
    BY <1>9 DEF MayTurn, Terminal
  <2>2. t = [begun EXCEPT !.active = Nothing, !.stored = bad, !.at = "idle"]
    BY <1>3, <1>6, <1>9, <2>1 DEF Completed, Failed, Dropped, Saved, States
  <2> HIDE DEF t, bad
  <2>3. t.at = "idle" /\ t.active = Nothing /\ t.stored = bad
    BY <1>3, <1>6, <1>7, <2>2 DEF States
  <2> QED BY <1>3, <1>4, <1>5, <1>6, <2>1, <2>3 DEF Terminal, begun, t
<1> QED BY <1>8, <1>9 DEF begun, t

\* Wherever a cycle was, two cycles without an error leave a completed record.
LEMMA Mends ==
    ASSUME NEW s, RecordInv(s)
    PROVE  LET mended == Undisturbed(Undisturbed(s))
           IN  mended.stored.phase = "completed" /\ mended.active = Nothing
<1> DEFINE start == IF s.at = "idle" THEN s ELSE [Beginning EXCEPT !.stored = s.stored]
           once == Undisturbed(s)
<1>1. RecordInv(start) /\ start.at = "idle"
  BY KillStep
<1>2. once = Completed(Begun(start))
  BY DEF Undisturbed
<1> HIDE DEF start, once
<1>3. /\ RecordInv(once) /\ once.at = "idle" /\ once.active = Nothing
      /\ once.stored.phase \in Terminal
  BY <1>1, <1>2, AfterCycle
<1>4. Undisturbed(once) = Completed(Begun(once))
  BY <1>3 DEF Undisturbed
<1>5. Undisturbed(once).stored.phase = "completed" /\ Undisturbed(once).active = Nothing
  BY <1>3, <1>4, AfterCycle
<1> QED BY <1>5 DEF once

LEMMA InvIsKept ==
    ASSUME NEW s, RecordInv(s)
    PROVE  IsKept(s)
<1>1. Cardinality(s.stored.processed) = s.stored.stats["processed"]
  BY DEF RecordInv, Counted, Counters
<1>2. s.stored.phase = "completed" /\ s.active = Nothing => s.handled \subseteq s.stored.processed
  BY DEF RecordInv
<1> QED BY <1>1, <1>2, Mends DEF IsKept

\* The record of a sync is kept: a scheduler that only does Steps, from a
\* start without records, is always in a state IsKept holds of, and each
\* of its steps is one KeptFrom holds of.
THEOREM RecordStaysKept ==
    ASSUME NEW VARIABLE s
    PROVE  s = Beginning /\ [][s' \in Steps(s)]_s => [](IsKept(s)) /\ [][KeptFrom(s, s')]_s
<1>1. s = Beginning => RecordInv(s)
  BY BeginningIsKept
<1>2. RecordInv(s) /\ [s' \in Steps(s)]_s => RecordInv(s)'
  <2>1. RecordInv(s) /\ s' \in Steps(s) => RecordInv(s')
    BY StepKeeps
  <2> QED BY <2>1 
<1>3. RecordInv(s) => IsKept(s)
  BY InvIsKept
<1>4. RecordInv(s) /\ [s' \in Steps(s)]_s => [KeptFrom(s, s')]_s
  BY StepKeeps
<1> QED BY <1>1, <1>2, <1>3, <1>4, PTL

LEMMA UsesKeepCounts ==
    ASSUME NEW p \in Record, Counted(p), NEW q \in Used(p)
    PROVE  q \in Record /\ Counted(q)
<1>1. CASE \E urls \in SUBSET Pages : q \in {AddDiscovered(p, urls), Enqueue(p, urls)}
  <2>1. PICK urls \in SUBSET Pages : q \in {AddDiscovered(p, urls), Enqueue(p, urls)}
    BY <1>1
  <2>2. /\ AddDiscovered(p, urls) \in Record /\ Counted(AddDiscovered(p, urls))
        /\ Enqueue(p, urls) \in Record /\ Counted(Enqueue(p, urls))
    BY Discovering
  <2> QED BY <2>1, <2>2
<1>2. CASE \E url \in Pages : q \in {MarkProcessed(p, url), MarkFailed(p, url), MarkSkipped(p, url)}
  BY <1>2, Marking
<1> QED BY <1>1, <1>2 DEF Used

LEMMA CountedAgrees ==
    ASSUME NEW q \in Record, Counted(q)
    PROVE  CountsAgree(q)
<1> DEFINE new == [k \in Counters |-> IF k \in Counters THEN Cardinality(q[k]) ELSE q.stats[k]]
<1>1. q.stats \in [Counters -> Nat] /\ q.processed \cap q.failed = {}
      /\ \A k \in Counters : q.stats[k] = Cardinality(q[k])
  BY DEF Record, Counted
<1>2. q.stats = new
  BY <1>1
<1>3. Recounted(q, Counters) = [q EXCEPT !.stats = new]
  BY DEF Recounted
<1> HIDE DEF new
<1>4. [q EXCEPT !.stats = new] = q
  BY <1>2 DEF Record
<1> QED BY <1>1, <1>3, <1>4 DEF CountsAgree

\* The counts of a record are those of its sets, and a URL is not processed
\* and failed at once, whatever has been done with the record since it was new
\* (SyncProgress in domain/sync_progress.py).
THEOREM CountsStayTrue ==
    ASSUME NEW VARIABLE p
    PROVE  p = CreateNew
             /\ [][p' \in Used(p) \/ \E phase \in Phases : MayTurn(p, phase) /\ p' = TurnedTo(p, phase)]_p
             => [](CountsAgree(p))
<1> DEFINE Uses == p' \in Used(p) \/ \E phase \in Phases : MayTurn(p, phase) /\ p' = TurnedTo(p, phase)
           Inv == p \in Record /\ Counted(p)
<1>1. p = CreateNew => Inv
  BY NewRecords
<1>2. Inv /\ [Uses]_p => Inv'
  BY UsesKeepCounts, Turning
<1>3. Inv => CountsAgree(p)
  BY CountedAgrees
<1> QED BY <1>1, <1>2, <1>3, PTL

\* The record a cycle keeps of itself loses nothing it has counted and ends
\* completed, through kills and failing checkpoints (sync_scheduler_progress.py).
THEOREM ProgressStaysKept == Spec => []ProgressIsKept
<1>1. ASSUME NEW records, \A p \in records : p \in Record /\ Counted(p)
      PROVE  \A p \in UsedOnce(records) : p \in Record /\ Counted(p)
  BY <1>1, UsesKeepCounts DEF UsedOnce
<1>2. \A p \in Records : p \in Record /\ Counted(p)
  <2> DEFINE Fine(records) == \A p \in records : p \in Record /\ Counted(p)
             one == UsedOnce({CreateNew})
             two == UsedOnce(one)
             three == UsedOnce(two)
             four == UsedOnce(three)
  <2>1. Fine({CreateNew})
    BY NewRecords
  <2>2. \A records : Fine(records) => Fine(UsedOnce(records))
    BY <1>1
  <2> HIDE DEF Fine
  <2>3. Fine(one) /\ Fine(two) /\ Fine(three) /\ Fine(four) /\ Fine(UsedOnce(four))
    BY <2>1, <2>2
  <2> QED BY <2>3 DEF Fine, Records
<1>3. ASSUME NEW states, \A s \in states : RecordInv(s)
      PROVE  \A s \in Onward(states) : RecordInv(s)
  BY <1>3, StepKeeps DEF Onward
<1>4. \A s \in Reached : RecordInv(s)
  <2> DEFINE Fine(states) == \A s \in states : RecordInv(s)
             further(states) == Onward(Onward(Onward(Onward(Onward(states)))))
  <2>1. Fine({Beginning})
    BY BeginningIsKept
  <2>2. \A states : Fine(states) => Fine(Onward(states))
    BY <1>3
  <2> HIDE DEF Fine
  <2>3. ASSUME NEW states, Fine(states)
        PROVE  Fine(further(states))
    BY <2>2, <2>3
  <2>4. Fine(further(further({Beginning})))
    BY <2>1, <2>3
  <2> QED BY <2>4 DEF Fine, Reached
<1>5. RecordIsKept
  BY <1>2, <1>4, CountedAgrees, InvIsKept, StepKeeps DEF RecordIsKept
<1>6. ProgressIsKept
  BY <1>5 DEF ProgressIsKept
<1> QED BY <1>6, PTL
=============================================================================
