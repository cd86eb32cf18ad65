----------------------------- MODULE TeamProofs -----------------------------
(***************************************************************************)
(* Proofs about Team, for any number of lanes, stages, tiles and passes:   *)
(* the invariant IInv is inductive, every tile runs once, and the team     *)
(* implements the contract Crew.                                           *)
(***************************************************************************)
EXTENDS Team, FiniteSetTheorems, TLAPS

Sizes == Lanes \in Nat \ {0} /\ Stages \in Nat /\ Tiles \in Nat

(* There are finitely many lanes, and lane 0 is one of them.               *)
LEMMA LanesAreFinite ==
  ASSUME Sizes
  PROVE  /\ 0 \in Lane /\ IsFiniteSet(Lane) /\ Cardinality(Lane) = Lanes
         /\ \A S \in SUBSET Lane : IsFiniteSet(S) /\ Cardinality(S) \in Nat
<1>1. 0 \in Int /\ Lanes - 1 \in Int /\ 0 \in Lane
  BY DEF Sizes, Lane
<1>2. IsFiniteSet(Lane) /\ Cardinality(Lane) = Lanes
  BY <1>1, FS_Interval DEF Sizes, Lane
<1>3. \A S \in SUBSET Lane : IsFiniteSet(S) /\ Cardinality(S) \in Nat
  BY <1>2, FS_Subset, FS_CardinalityType
<1> QED
  BY <1>1, <1>2, <1>3

(* Every variable keeps its type.                                          *)
LEMMA PlacesTyped == ASSUME Sizes, TeamTypeOK, [TeamNext]_lanes PROVE at' \in [Lane -> LanePlaces]
<1>1. ASSUME NEW l \in Lane, LaneStep(l)
      PROVE  at' \in [Lane -> LanePlaces]
  <2>1. \E p \in LanePlaces : at' = [at EXCEPT ![l] = p]
    <3>1. AfterFence(l) \in LanePlaces /\ AfterTiles(l) \in LanePlaces
      BY DEF AfterFence, AfterTiles, LanePlaces
    <3>2. CASE Look(l) \/ DispatchWait(l)
      BY <3>2 DEF Look, DispatchWait, Goto, LanePlaces
    <3>3. CASE Arrive(l) \/ Serial(l) \/ Park(l) \/ FenceWait(l)
      BY <3>3 DEF Arrive, Serial, Park, FenceWait, Goto, LanePlaces
    <3>4. CASE Collect(l) \/ RingFence(l) \/ Gate(l)
      <4>1. {"ring", "parked"} \subseteq LanePlaces
        BY DEF LanePlaces
      <4> QED
        BY <3>1, <3>4, <4>1 DEF Collect, RingFence, Gate, Goto
    <3>5. CASE Claim(l) \/ Run(l)
      <4>1. {"tile", "claim"} \subseteq LanePlaces
        BY DEF LanePlaces
      <4> QED
        BY <3>1, <3>5, <4>1 DEF Claim, Run, Goto
    <3>6. CASE l = 0 /\ (LanePublish \/ Published)
      BY <3>6 DEF LanePublish, Published, Goto, LanePlaces
    <3> QED
      BY <1>1, <3>2, <3>3, <3>4, <3>5, <3>6 DEF LaneStep
  <2> QED
    BY <2>1 DEF TeamTypeOK
<1>2. CASE NewGeneration \/ Retire \/ SignalAll \/ UNCHANGED lanes
  BY <1>2 DEF NewGeneration, Retire, SignalAll, lanes, place, TeamTypeOK
<1> QED
  BY <1>1, <1>2 DEF TeamNext

LEMMA Typed == ASSUME Sizes, IInv, [TeamNext]_lanes PROVE TeamTypeOK'
<1> USE DEF IInv
<1>a. at' \in [Lane -> LanePlaces]
  BY PlacesTyped
<1>b. /\ laneGen \in Nat /\ gen \in Nat /\ arrived \in Nat /\ next \in Nat
      /\ entry \in [Lane -> Nat] /\ tile \in [Lane -> 0..Tiles] /\ awake \in SUBSET Lane
      /\ retire \in BOOLEAN
  BY DEF TeamTypeOK
<1>1. CASE NewGeneration \/ Retire \/ SignalAll
  <2>1. laneGen' \in Nat /\ retire' \in BOOLEAN /\ told' \in BOOLEAN /\ awake' \in SUBSET Lane
    <3>1. CASE NewGeneration
      <4>1. laneGen' = laneGen + 1 /\ UNCHANGED <<retire, awake>>
        BY <3>1 DEF NewGeneration
      <4>2. told' \in BOOLEAN
        BY <3>1 DEF NewGeneration
      <4> QED
        BY <1>b, <4>1, <4>2
    <3>2. CASE Retire
      BY <3>2 DEF Retire, TeamTypeOK
    <3>3. CASE SignalAll
      BY <3>3 DEF SignalAll, TeamTypeOK
    <3> QED
      BY <1>1, <3>1, <3>2, <3>3
  <2>2. UNCHANGED <<place, fence, work>>
    BY <1>1 DEF NewGeneration, Retire, SignalAll
  <2> QED
    BY <2>1, <2>2, <1>a DEF place, fence, work, TeamTypeOK
<1>2. ASSUME NEW l \in Lane, Look(l) \/ DispatchWait(l)
      PROVE  TeamTypeOK'
  <2>1. seen' \in [Lane -> Nat] /\ awake' \in SUBSET Lane
    BY <1>2 DEF Look, DispatchWait, pass, TeamTypeOK
  <2>2. stage' \in [Lane -> 1..Stages + 1]
    <3>1. 1 \in 1..Stages + 1
      BY DEF Sizes
    <3>2. stage' = stage \/ stage' = [stage EXCEPT ![l] = 1]
      BY <1>2 DEF Look, DispatchWait
    <3> QED
      BY <3>1, <3>2 DEF TeamTypeOK
  <2>3. UNCHANGED <<pass, tile, entry, fence, work>>
    BY <1>2 DEF Look, DispatchWait
  <2> QED
    BY <2>1, <2>2, <2>3, <1>a DEF pass, fence, work, TeamTypeOK
<1>3. ASSUME NEW l \in Lane, Arrive(l) \/ Collect(l) \/ RingFence(l)
      PROVE  TeamTypeOK'
  <2>1. entry' \in [Lane -> Nat] /\ arrived' \in Nat
    <3>1. \/ entry' = [entry EXCEPT ![l] = gen] /\ arrived' = arrived + 1
          \/ UNCHANGED <<entry, arrived>>
      BY <1>3 DEF Arrive, Collect, RingFence
    <3> QED
      BY <1>b, <3>1
  <2>2. parkMask' \in SUBSET Lane /\ roused' \in SUBSET Lane
    BY <1>3 DEF Arrive, Collect, RingFence, TeamTypeOK
  <2>3. UNCHANGED <<pass, seen, stage, tile, gen, awake, work>>
    BY <1>3 DEF Arrive, Collect, RingFence
  <2> QED
    BY <2>1, <2>2, <2>3, <1>a DEF pass, work, TeamTypeOK
<1>4. ASSUME NEW l \in Lane, Serial(l)
      PROVE  TeamTypeOK'
  BY <1>4, <1>a DEF Sizes, Serial, FirstTile, pass, work, TeamTypeOK
<1>5. ASSUME NEW l \in Lane, Park(l) \/ Gate(l) \/ FenceWait(l)
      PROVE  TeamTypeOK'
  BY <1>5, <1>a DEF Park, Gate, FenceWait, pass, work, TeamTypeOK
<1>6. ASSUME NEW l \in Lane, Claim(l) \/ Run(l)
      PROVE  TeamTypeOK'
  <2>1. CASE Claim(l)
    <3>1. next' \in Nat /\ tile' \in [Lane -> 0..Tiles]
      <4>1. next < Tiles => next \in 0..Tiles
        BY DEF Sizes, TeamTypeOK
      <4>2. tile' = tile \/ (next < Tiles /\ tile' = [tile EXCEPT ![l] = next])
        BY <2>1 DEF Claim
      <4> QED
        <5>1. next' = next + 1
          BY <2>1 DEF Claim
        <5> QED
          BY <1>b, <4>1, <4>2, <5>1
    <3>2. stage' \in [Lane -> 1..Stages + 1]
      <4>1. stage[l] + 1 \in 1..Stages + 1
        BY <2>1 DEF Sizes, Claim, IInv, TogetherInv, TeamTypeOK
      <4>2. stage' = stage \/ stage' = [stage EXCEPT ![l] = stage[l] + 1]
        BY <2>1 DEF Claim, TeamTypeOK
      <4> QED
        BY <4>1, <4>2 DEF TeamTypeOK
    <3> QED
      BY <2>1, <3>1, <3>2, <1>a DEF Claim, pass, fence, TeamTypeOK
  <2>2. CASE Run(l)
    <3>1. ran' \in [0..Tiles - 1 -> Nat]
      <4>1. tile[l] \in 0..Tiles - 1
        BY <2>2 DEF Sizes, Run, IInv, ClaimInv, TeamTypeOK
      <4> QED
        BY <2>2, <4>1 DEF Run, TeamTypeOK
    <3> QED
      BY <2>2, <3>1, <1>a DEF Run, pass, fence, TeamTypeOK
  <2> QED
    BY <1>6, <2>1, <2>2
<1>7. CASE LanePublish \/ Published
  BY <1>7, <1>a DEF LanePublish, Published, pass, fence, work, TeamTypeOK
<1>8. CASE UNCHANGED lanes
  BY <1>8 DEF lanes, pass, place, fence, work, TeamTypeOK
<1> QED
  BY <1>1, <1>2, <1>3, <1>4, <1>5, <1>6, <1>7, <1>8 DEF TeamNext, LaneStep

-----------------------------------------------------------------------------
(* What a step of one lane that opens no fence has to keep.                *)
LEMMA KeptTogether ==
  ASSUME Sizes, IInv, NEW l \in Lane, UNCHANGED <<laneGen, gen>>,
         \A m \in Lane \ {l} : /\ at'[m] = at[m] /\ seen'[m] = seen[m]
                               /\ stage'[m] = stage[m] /\ entry'[m] = entry[m],
         Due(l)' = Due(l), seen'[l] <= laneGen, ~Idle(l)' => seen'[l] > 0,
         at'[l] \in {"claim", "tile"} => stage'[l] <= Stages
  PROVE  TogetherInv'
<1>1. \A m \in Lane \ {l} : Due(m)' = Due(m) /\ (Idle(m)' <=> Idle(m))
  BY DEF Due, Idle, Comes, Waits
<1>2. \A m \in Lane : Due(m)' = Due(m)
  BY <1>1
<1>3. 0 \in Lane
  BY LanesAreFinite
<1> QED
  BY <1>1, <1>2, <1>3 DEF IInv, TogetherInv

LEMMA KeptFence ==
  ASSUME Sizes, IInv, NEW l \in Lane, UNCHANGED <<gen, arrived>>,
         \A m \in Lane \ {l} : at'[m] = at[m] /\ entry'[m] = entry[m],
         Waits(l)' <=> Waits(l), at'[l] # "serial",
         at'[l] \in {"park", "gate", "parked"} => entry'[l] <= gen
  PROVE  FenceInv'
<1>1. \A m \in Lane : Waits(m)' <=> Waits(m)
  BY DEF Waits
<1>2. {m \in Lane : Waits(m)}' = {m \in Lane : Waits(m)}
  BY <1>1
<1> QED
  BY <1>1, <1>2 DEF IInv, FenceInv

LEMMA KeptClaims ==
  ASSUME Sizes, IInv, NEW l \in Lane, UNCHANGED <<gen, tile, next, ran>>,
         \A m \in Lane \ {l} : at'[m] = at[m] /\ stage'[m] = stage[m] /\ entry'[m] = entry[m],
         at[l] # "tile", at'[l] # "tile",
         Comes(l)' /\ stage'[l] > 1 => Tiles <= next
  PROVE  ClaimInv'
<1>1. \A m \in Lane \ {l} : Comes(m)' <=> Comes(m)
  BY DEF Comes, Waits
<1>2. \A m \in Lane : at'[m] = "tile" <=> at[m] = "tile"
  OBVIOUS
<1> QED
  BY <1>1, <1>2 DEF IInv, ClaimInv

LEMMA KeptLast ==
  ASSUME Sizes, IInv, NEW l \in Lane, UNCHANGED <<laneGen, retire>>,
         \A m \in Lane \ {l} : at'[m] = at[m] /\ seen'[m] = seen[m],
         l = 0 => /\ at'[0] \in {"look", "wait", "published", "gone"} \/ seen'[0] = laneGen
                  /\ retire => /\ seen'[0] = laneGen
                               /\ at'[0] \in {"look", "wait", "published", "gone"}
  PROVE  LastInv'
  BY LanesAreFinite DEF IInv, LastInv

-----------------------------------------------------------------------------
(* The lanes between passes, and on their way into a pass.                 *)
LEMMA LookKeeps == ASSUME Sizes, IInv, TeamTypeOK', NEW l \in Lane, Look(l) PROVE IInv'
<1> USE DEF Look, Goto, pass, fence, work
<1>1. \A m \in Lane \ {l} : /\ at'[m] = at[m] /\ seen'[m] = seen[m]
                            /\ stage'[m] = stage[m] /\ entry'[m] = entry[m]
  BY DEF IInv, TeamTypeOK
<1>2. /\ at[l] = "look"
      /\ UNCHANGED <<laneGen, gen, arrived, retire, tile, next, ran, entry>>
  OBVIOUS
<1>3. \/ at'[l] \in {"gone", "wait"} /\ seen'[l] = seen[l] /\ stage'[l] = stage[l]
      \/ /\ at'[l] = "arrive" /\ ~retire
         /\ seen'[l] = laneGen /\ seen'[l] = seen[l] + 1 /\ stage'[l] = 1
  <2>1. laneGen \in Nat /\ seen[l] \in Nat /\ seen[l] <= laneGen /\ laneGen <= seen[l] + 1
    BY <1>2 DEF IInv, TeamTypeOK, TogetherInv, Due, Idle
  <2> QED
    BY <2>1 DEF IInv, TeamTypeOK
<1>4. seen[l] \in Nat /\ laneGen \in Nat /\ seen[l] <= laneGen
  BY DEF IInv, TeamTypeOK, TogetherInv
<1>5. Due(l)' = Due(l)
  BY <1>2, <1>3 DEF Due, Idle, Comes, Waits
<1>6. TogetherInv'
  BY <1>1, <1>2, <1>3, <1>4, <1>5, KeptTogether DEF Idle
<1>7. FenceInv'
  BY <1>1, <1>2, <1>3, KeptFence DEF Waits
<1>8. ClaimInv'
  BY <1>1, <1>2, <1>3, KeptClaims DEF Comes, Waits
<1>9. LastInv'
  <2>1. retire => at'[l] = "gone" /\ seen'[l] = seen[l]
    BY DEF IInv, TeamTypeOK
  <2> QED
    BY <1>1, <1>2, <1>3, <2>1, KeptLast DEF IInv, LastInv
<1> QED
  BY <1>6, <1>7, <1>8, <1>9 DEF IInv

LEMMA DispatchWaitKeeps ==
  ASSUME Sizes, IInv, TeamTypeOK', NEW l \in Lane, DispatchWait(l) PROVE IInv'
<1>1. /\ \A m \in Lane \ {l} : at'[m] = at[m]
      /\ at[l] = "wait" /\ at'[l] = "look"
      /\ UNCHANGED <<laneGen, gen, arrived, retire, seen, stage, tile, next, ran, entry>>
  BY DEF DispatchWait, Goto, pass, fence, work, IInv, TeamTypeOK
<1>2. Due(l)' = Due(l)
  BY <1>1 DEF Due, Idle, Comes, Waits
<1>3. TogetherInv'
  BY <1>1, <1>2, KeptTogether DEF Idle, IInv, TogetherInv
<1>4. FenceInv'
  BY <1>1, KeptFence DEF Waits
<1>5. ClaimInv'
  BY <1>1, KeptClaims DEF Comes, Waits
<1>6. LastInv'
  BY <1>1, KeptLast DEF IInv, LastInv
<1> QED
  BY <1>3, <1>4, <1>5, <1>6 DEF IInv

LEMMA PublishKeeps ==
  ASSUME Sizes, IInv, TeamTypeOK', LanePublish \/ Published PROVE IInv'
<1>0. 0 \in Lane
  BY LanesAreFinite
<1>1. /\ \A m \in Lane \ {0} : at'[m] = at[m]
      /\ at[0] \in {"publish", "published"} /\ at'[0] \in {"published", "look"}
      /\ UNCHANGED <<laneGen, gen, arrived, retire, seen, stage, tile, next, ran, entry>>
  BY <1>0 DEF LanePublish, Published, Goto, pass, fence, work, IInv, TeamTypeOK
<1>2. Due(0)' = Due(0)
  BY <1>1 DEF Due, Idle, Comes, Waits
<1>3. TogetherInv'
  BY <1>0, <1>1, <1>2, KeptTogether DEF Idle, IInv, TogetherInv
<1>4. FenceInv'
  BY <1>0, <1>1, KeptFence DEF Waits
<1>5. ClaimInv'
  BY <1>0, <1>1, KeptClaims DEF Comes, Waits
<1>6. LastInv'
  BY <1>0, <1>1, KeptLast DEF IInv, LastInv
<1> QED
  BY <1>3, <1>4, <1>5, <1>6 DEF IInv

-----------------------------------------------------------------------------
(* The fence.  A lane stays at it, or crosses it.                          *)
LEMMA StayKeeps ==
  ASSUME Sizes, IInv, TeamTypeOK', NEW l \in Lane,
         UNCHANGED <<laneGen, retire, seen, stage, tile, entry, gen, arrived, next, ran>>,
         \A m \in Lane \ {l} : at'[m] = at[m],
         \/ at[l] \in {"park", "gate", "parked"} /\ at'[l] \in {"park", "gate", "parked"}
         \/ at[l] = "collect" /\ at'[l] = "ring"
  PROVE  IInv'
<1>1. (Waits(l)' <=> Waits(l)) /\ (Comes(l)' <=> Comes(l)) /\ ~Idle(l) /\ ~Idle(l)'
  BY DEF Waits, Comes, Idle
<1>2. Due(l)' = Due(l)
  BY <1>1 DEF Due
<1>3. TogetherInv'
  BY <1>1, <1>2, KeptTogether DEF IInv, TogetherInv
<1>4. FenceInv'
  BY <1>1, KeptFence DEF IInv, FenceInv
<1>5. ClaimInv'
  BY <1>1, KeptClaims DEF IInv, ClaimInv
<1>6. LastInv'
  BY KeptLast DEF IInv, LastInv
<1> QED
  BY <1>3, <1>4, <1>5, <1>6 DEF IInv

LEMMA CrossKeeps ==
  ASSUME Sizes, IInv, TeamTypeOK', NEW l \in Lane,
         UNCHANGED <<laneGen, retire, seen, stage, tile, entry, gen, arrived, next, ran>>,
         \A m \in Lane \ {l} : at'[m] = at[m],
         at[l] \in {"collect", "ring", "gate"}, ~Waits(l), at'[l] = AfterFence(l)
  PROVE  IInv'
<1>1. \/ at'[l] = "claim" /\ stage[l] <= Stages
      \/ at'[l] = "publish" /\ l = 0 /\ stage[l] > Stages
      \/ at'[l] = "look" /\ l # 0 /\ stage[l] > Stages
  BY DEF AfterFence, Sizes, IInv, TeamTypeOK
<1>2. /\ ~Waits(l)' /\ ~Comes(l) /\ ~Comes(l)' /\ ~Idle(l)
      /\ Idle(l)' <=> stage[l] > Stages
  BY <1>1 DEF Waits, Comes, Idle, Sizes, IInv, TeamTypeOK
<1>3. Due(l)' = Due(l)
  BY <1>2 DEF Due
<1>4. TogetherInv'
  BY <1>1, <1>2, <1>3, KeptTogether DEF IInv, TogetherInv
<1>5. FenceInv'
  BY <1>1, <1>2, KeptFence
<1>6. ClaimInv'
  BY <1>1, <1>2, KeptClaims
<1>7. LastInv'
  BY <1>1, KeptLast DEF IInv, LastInv
<1> QED
  BY <1>4, <1>5, <1>6, <1>7 DEF IInv

LEMMA FenceKeeps ==
  ASSUME Sizes, IInv, TeamTypeOK', NEW l \in Lane,
         Collect(l) \/ RingFence(l) \/ Park(l) \/ Gate(l) \/ FenceWait(l)
  PROVE  IInv'
<1>1. /\ UNCHANGED <<laneGen, retire, seen, stage, tile, entry, gen, arrived, next, ran>>
      /\ \A m \in Lane \ {l} : at'[m] = at[m]
  BY DEF Collect, RingFence, Park, Gate, FenceWait, Goto, pass, work, IInv, TeamTypeOK
<1>2. CASE Park(l) \/ FenceWait(l)
  <2>1. at[l] \in {"park", "parked"} /\ at'[l] = "gate"
    BY <1>2 DEF Park, FenceWait, Goto, IInv, TeamTypeOK
  <2> QED
    BY <1>1, <2>1, StayKeeps
<1>3. CASE Gate(l)
  <2>1. at[l] = "gate"
    BY <1>3 DEF Gate
  <2>2. CASE gen = entry[l]
    <3>1. at'[l] = "parked"
      BY <1>3, <2>2 DEF Gate, Goto, IInv, TeamTypeOK
    <3> QED
      BY <1>1, <2>1, <3>1, StayKeeps
  <2>3. CASE gen # entry[l]
    <3>1. at'[l] = AfterFence(l) /\ ~Waits(l)
      BY <1>3, <2>3 DEF Gate, Goto, Waits, IInv, TeamTypeOK
    <3> QED
      BY <1>1, <2>1, <3>1, CrossKeeps
  <2> QED
    BY <2>2, <2>3
<1>4. CASE Collect(l) \/ RingFence(l)
  <2>1. at[l] \in {"collect", "ring"} /\ ~Waits(l)
    BY <1>4 DEF Collect, RingFence, Waits
  <2>2. \/ at'[l] = AfterFence(l)
        \/ at[l] = "collect" /\ at'[l] = "ring"
    BY <1>4 DEF Collect, RingFence, Goto, IInv, TeamTypeOK
  <2> QED
    BY <1>1, <2>1, <2>2, CrossKeeps, StayKeeps
<1> QED
  BY <1>2, <1>3, <1>4

(* The last lane to arrive finds all the others waiting.                   *)
LEMMA ArriveKeeps == ASSUME Sizes, IInv, TeamTypeOK', NEW l \in Lane, Arrive(l) PROVE IInv'
<1> DEFINE W == {m \in Lane : Waits(m)}
<1>1. /\ at[l] = "arrive" /\ arrived' = arrived + 1
      /\ UNCHANGED <<laneGen, retire, seen, stage, tile, gen, next, ran>>
      /\ \A m \in Lane \ {l} : at'[m] = at[m] /\ entry'[m] = entry[m]
      /\ entry'[l] = gen
      /\ at'[l] = IF arrived + 1 = Lanes THEN "serial" ELSE "park"
  BY DEF Arrive, Goto, IsLast, pass, work, IInv, TeamTypeOK
<1>2. ~Waits(l) /\ Waits(l)' /\ Comes(l) /\ Comes(l)' /\ ~Idle(l) /\ ~Idle(l)'
  BY <1>1 DEF Waits, Comes, Idle
<1>3. Due(l)' = Due(l)
  BY <1>1, <1>2 DEF Due
<1>4. \A m \in Lane \ {l} : /\ Waits(m)' <=> Waits(m)
                            /\ Comes(m)' <=> Comes(m)
                            /\ Idle(m)' <=> Idle(m)
                            /\ Due(m)' = Due(m)
  BY <1>1 DEF Due, Idle, Comes, Waits
<1>5. TogetherInv'
  <2>1. \A m \in Lane : Due(m)' = Due(m)
    BY <1>3, <1>4
  <2> QED
    BY <1>1, <1>2, <1>4, <2>1, LanesAreFinite DEF IInv, TogetherInv
<1>6. FenceInv'
  <2>1. {m \in Lane : Waits(m)}' = W \cup {l}
    BY <1>2, <1>4
  <2>2. W \in SUBSET Lane /\ l \notin W /\ arrived = Cardinality(W)
    BY <1>2 DEF IInv, FenceInv
  <2>3. arrived' = Cardinality(W \cup {l})
    BY <1>1, <2>2, LanesAreFinite, FS_AddElement
  <2>4. \A m \in Lane : at[m] # "serial"
    BY <1>2 DEF IInv, FenceInv
  <2>5. arrived + 1 = Lanes => W \cup {l} = Lane
    BY <1>1, <2>2, <2>3, LanesAreFinite, FS_Subset
  <2>6. at'[l] = "serial" => \A m \in Lane : Waits(m)'
    BY <1>1, <2>1, <2>5
  <2>7. gen \in Nat /\ \A m \in Lane : at'[m] = "serial" => m = l
    BY <1>1, <2>4 DEF IInv, TeamTypeOK
  <2>8. \A m \in Lane : at'[m] \in {"park", "gate", "parked"} => entry'[m] <= gen'
    BY <1>1, <2>7 DEF IInv, FenceInv
  <2> QED
    BY <2>1, <2>3, <2>6, <2>7, <2>8 DEF FenceInv
<1>7. ClaimInv'
  <2>1. at[l] # "tile" /\ at'[l] # "tile"
    BY <1>1
  <2>2. \A m \in Lane : (Comes(m)' <=> Comes(m)) /\ (at'[m] = "tile" <=> at[m] = "tile")
    BY <1>1, <1>2, <1>4, <2>1
  <2> QED
    BY <1>1, <2>2 DEF IInv, ClaimInv
<1>8. LastInv'
  BY <1>1, KeptLast DEF IInv, LastInv
<1> QED
  BY <1>5, <1>6, <1>7, <1>8 DEF IInv

(* The fence opens: the lanes that waited at it are due at the next.       *)
LEMMA SerialKeeps == ASSUME Sizes, IInv, TeamTypeOK', NEW l \in Lane, Serial(l) PROVE IInv'
<1>1. /\ at[l] = "serial" /\ at'[l] = "collect" /\ arrived' = 0 /\ gen' = gen + 1 /\ gen \in Nat
      /\ UNCHANGED <<laneGen, retire, seen, stage, tile, entry>>
      /\ \A m \in Lane \ {l} : at'[m] = at[m]
  BY DEF Serial, Goto, pass, IInv, TeamTypeOK
<1>2. \A m \in Lane : Waits(m) /\ (at[m] = "serial" => m = l)
  BY <1>1 DEF IInv, FenceInv
<1>3. \A m \in Lane \ {l} : at[m] \in {"park", "gate", "parked"} /\ entry[m] = gen
  BY <1>2 DEF Waits
<1>4. \A m \in Lane : ~Waits(m)' /\ ~Comes(m)' /\ ~Idle(m)' /\ ~Idle(m) /\ Comes(m)
  BY <1>1, <1>2, <1>3 DEF Waits, Comes, Idle
<1>5. 0 \in Lane
  BY LanesAreFinite
<1>6. \A m \in Lane : seen[m] = seen[0] /\ stage[m] = stage[0]
  <2>1. \A m \in Lane : Due(m) = [pass |-> seen[m], stage |-> stage[m]]
    BY <1>4 DEF Due
  <2>2. \A m \in Lane : Due(m) = Due(0)
    BY DEF IInv, TogetherInv
  <2> QED
    BY <1>5, <2>1, <2>2
<1>7. TogetherInv'
  <2>1. \A m \in Lane : Due(m)' = IF stage[m] > Stages THEN [pass |-> seen[m] + 1, stage |-> 1]
                                  ELSE [pass |-> seen[m], stage |-> stage[m] + 1]
    BY <1>1, <1>4 DEF Due
  <2>2. \A m \in Lane : seen[m] \in Nat /\ seen[m] <= laneGen /\ laneGen <= seen[m] /\ laneGen \in Nat
    BY <1>4 DEF IInv, TeamTypeOK, TogetherInv, Due
  <2>3. \A m \in Lane : at'[m] \notin {"claim", "tile"}
    BY <1>1, <1>3
  <2> QED
    BY <1>1, <1>4, <1>5, <1>6, <2>1, <2>2, <2>3 DEF TogetherInv, IInv
<1>8. FenceInv'
  <2>1. {m \in Lane : Waits(m)}' = {}
    BY <1>4
  <2>2. \A m \in Lane : at'[m] \in {"park", "gate", "parked"} => entry'[m] <= gen'
    BY <1>1, <1>3
  <2> QED
    BY <1>1, <1>4, <2>1, <2>2, FS_EmptySet DEF FenceInv, Waits
<1>9. ClaimInv'
  <2>1. \A m \in Lane : at[m] # "tile" /\ at'[m] # "tile"
    BY <1>1, <1>3
  <2>2. CASE UNCHANGED work
    BY <1>4, <2>1, <2>2 DEF work, ClaimInv, IInv
  <2>3. CASE next' = FirstTile /\ ran' = [i \in 0..Tiles - 1 |-> 0]
    BY <1>4, <2>1, <2>3 DEF FirstTile, ClaimInv
  <2> QED
    BY <2>2, <2>3 DEF Serial
<1>10. LastInv'
  BY <1>1, <1>5, KeptLast DEF IInv, LastInv
<1> QED
  BY <1>7, <1>8, <1>9, <1>10 DEF IInv

(* A tile is claimed by one lane, and the lane that finds none goes on.    *)
LEMMA ClaimKeeps == ASSUME Sizes, IInv, TeamTypeOK', NEW l \in Lane, Claim(l) PROVE IInv'
<1>1. /\ at[l] = "claim" /\ next' = next + 1 /\ next \in Nat /\ Tiles \in Nat
      /\ UNCHANGED <<laneGen, retire, seen, entry, gen, arrived, ran>>
      /\ \A m \in Lane \ {l} : at'[m] = at[m] /\ stage'[m] = stage[m] /\ tile'[m] = tile[m]
      /\ stage[l] \in Nat /\ stage[l] <= Stages
      /\ \/ /\ next < Tiles /\ at'[l] = "tile"
            /\ tile'[l] = next /\ stage'[l] = stage[l]
         \/ /\ Tiles <= next /\ at'[l] = "arrive"
            /\ stage'[l] = stage[l] + 1 /\ tile'[l] = tile[l]
  <2>1. stage[l] \in Nat /\ stage[l] <= Stages
    BY DEF Claim, IInv, TeamTypeOK, TogetherInv
  <2> QED
    BY <2>1 DEF Claim, Goto, AfterTiles, pass, fence, Sizes, IInv, TeamTypeOK
<1>2. Due(l)' = Due(l) /\ ~Idle(l) /\ ~Waits(l) /\ ~Waits(l)' /\ ~Comes(l)
  BY <1>1 DEF Due, Idle, Comes, Waits, Sizes
<1>3. \A m \in Lane \ {l} : Comes(m)' <=> Comes(m)
  BY <1>1 DEF Comes, Waits
<1>4. TogetherInv'
  BY <1>1, <1>2, KeptTogether DEF IInv, TogetherInv
<1>5. FenceInv'
  BY <1>1, <1>2, KeptFence
<1>6. ClaimInv'
  <2>1. \A m \in Lane \ {l} : at'[m] = "tile" => tile'[m] < next /\ tile'[m] < Tiles
    BY <1>1 DEF IInv, ClaimInv
  <2>2. \A m \in Lane : tile'[m] \in Nat
    BY DEF TeamTypeOK
  <2>3. ASSUME NEW m \in Lane, NEW o \in Lane,
               at'[m] = "tile", at'[o] = "tile", tile'[m] = tile'[o]
        PROVE  m = o
    <3>1. at'[l] = "tile" => tile'[l] = next
      BY <1>1
    <3>2. CASE m = l \/ o = l
      BY <1>1, <2>1, <2>2, <2>3, <3>1, <3>2
    <3>3. CASE m # l /\ o # l
      BY <1>1, <2>3, <3>3 DEF IInv, ClaimInv
    <3> QED
      BY <3>2, <3>3
  <2>4. \A m \in Lane : at'[m] = "tile" => tile'[m] < next' /\ tile'[m] < Tiles
    BY <1>1, <2>1, <2>2
  <2>5. \A m \in Lane : Comes(m)' /\ stage'[m] > 1 => Tiles <= next'
    <3>1. \A m \in Lane \ {l} : Comes(m)' /\ stage'[m] > 1 => Tiles <= next
      BY <1>1, <1>3 DEF IInv, ClaimInv
    <3>2. Comes(l)' => Tiles <= next
      BY <1>1 DEF Comes, Waits
    <3> QED
      BY <1>1, <3>1, <3>2
  <2>6. ASSUME NEW i \in 0..Tiles - 1
        PROVE  (i < next' /\ \A m \in Lane : at'[m] = "tile" => tile'[m] # i)
                 <=> (i < next /\ \A m \in Lane : at[m] = "tile" => tile[m] # i)
    <3>1. \A m \in Lane \ {l} : (at'[m] = "tile" => tile'[m] # i) <=> (at[m] = "tile" => tile[m] # i)
      BY <1>1
    <3>2. i < next' <=> i < next \/ i = next
      BY <1>1
    <3>3. CASE at'[l] = "tile"
      BY <1>1, <2>6, <3>1, <3>2, <3>3
    <3>4. CASE at'[l] = "arrive"
      BY <1>1, <2>6, <3>1, <3>2, <3>4
    <3> QED
      BY <1>1, <3>3, <3>4
  <2>7. \A i \in 0..Tiles - 1 :
          ran'[i] = IF i < next' /\ (\A m \in Lane : at'[m] = "tile" => tile'[m] # i) THEN 1 ELSE 0
    BY <1>1, <2>6 DEF IInv, ClaimInv
  <2> QED
    BY <2>3, <2>4, <2>5, <2>7 DEF ClaimInv
<1>7. LastInv'
  BY <1>1, KeptLast DEF IInv, LastInv
<1> QED
  BY <1>4, <1>5, <1>6, <1>7 DEF IInv

LEMMA RunKeeps == ASSUME Sizes, IInv, TeamTypeOK', NEW l \in Lane, Run(l) PROVE IInv'
<1>1. /\ at[l] = "tile" /\ at'[l] = "claim"
      /\ UNCHANGED <<laneGen, retire, seen, stage, tile, entry, gen, arrived, next>>
      /\ \A m \in Lane \ {l} : at'[m] = at[m]
  BY DEF Run, Goto, pass, fence, IInv, TeamTypeOK
<1>2. stage[l] <= Stages /\ Stages \in Nat /\ stage[l] \in Nat
  BY <1>1 DEF IInv, TeamTypeOK, TogetherInv, Sizes
<1>3. Due(l)' = Due(l) /\ ~Idle(l) /\ ~Waits(l) /\ ~Waits(l)' /\ ~Comes(l) /\ ~Comes(l)'
  BY <1>1, <1>2 DEF Due, Idle, Comes, Waits
<1>4. TogetherInv'
  BY <1>1, <1>2, <1>3, KeptTogether DEF IInv, TogetherInv
<1>5. FenceInv'
  BY <1>1, <1>3, KeptFence
<1>6. ClaimInv'
  <2>1. \A m \in Lane : (Comes(m)' <=> Comes(m)) /\ (at'[m] = "tile" <=> at[m] = "tile" /\ m # l)
    <3>1. \A m \in Lane \ {l} : Comes(m)' <=> Comes(m)
      BY <1>1 DEF Comes, Waits
    <3> QED
      BY <1>1, <1>3, <3>1
  <2>2. \A i \in 0..Tiles - 1 :
          ran[i] = IF i < next /\ (\A m \in Lane : at[m] = "tile" => tile[m] # i) THEN 1 ELSE 0
    BY DEF IInv, ClaimInv
  <2>3. tile[l] \in 0..Tiles - 1 /\ tile[l] < next
    BY <1>1 DEF IInv, TeamTypeOK, ClaimInv, Sizes
  <2>4. ran[tile[l]] = 0 /\ ran'[tile[l]] = 1
    <3>1. ran[tile[l]] = 0
      BY <1>1, <2>2, <2>3
    <3> QED
      BY <2>3, <3>1 DEF Run, IInv, TeamTypeOK
  <2>5. \A m \in Lane : at'[m] = "tile" => tile[m] # tile[l]
    BY <1>1, <2>1 DEF IInv, ClaimInv
  <2>6. \A i \in 0..Tiles - 1 \ {tile[l]} : ran'[i] = ran[i]
    BY DEF Run, IInv, TeamTypeOK
  <2>7. ASSUME NEW i \in 0..Tiles - 1
        PROVE  ran'[i] = IF i < next /\ (\A m \in Lane : at'[m] = "tile" => tile[m] # i) THEN 1 ELSE 0
    <3>1. CASE i = tile[l]
      BY <2>3, <2>4, <2>5, <3>1
    <3>2. CASE i # tile[l]
      <4>1. ran'[i] = ran[i]
        BY <2>6, <3>2
      <4>2. \A m \in Lane : (at'[m] = "tile" => tile[m] # i) <=> (at[m] = "tile" => tile[m] # i)
        BY <2>1, <3>2
      <4> QED
        BY <2>2, <4>1, <4>2
    <3> QED
      BY <3>1, <3>2
  <2> QED
    BY <1>1, <2>1, <2>7 DEF IInv, ClaimInv
<1>7. LastInv'
  BY <1>1, KeptLast DEF IInv, LastInv
<1> QED
  BY <1>4, <1>5, <1>6, <1>7 DEF IInv

-----------------------------------------------------------------------------
(* The dispatcher and the owner.  Lane 0 has run the last pass, so all     *)
(* lanes are due at the first fence of the next.                           *)
LEMMA NewGenerationKeeps == ASSUME Sizes, IInv, TeamTypeOK', NewGeneration PROVE IInv'
<1>1. /\ laneGen \in Nat /\ laneGen' = laneGen + 1 /\ retire' = FALSE
      /\ at[0] \in {"published", "look", "wait"} /\ seen[0] = laneGen
      /\ UNCHANGED <<seen, at, stage, tile, entry, gen, arrived, next, ran>>
  BY DEF NewGeneration, Between, place, fence, work, IInv, TeamTypeOK
<1>2. \A l \in Lane : /\ Due(l)' = Due(l) /\ (Idle(l)' <=> Idle(l))
                      /\ (Waits(l)' <=> Waits(l)) /\ (Comes(l)' <=> Comes(l))
  BY <1>1 DEF Due, Idle, Comes, Waits
<1>3. \A l \in Lane : Due(l).pass = laneGen + 1
  BY <1>1 DEF Due, Idle, IInv, TogetherInv
<1>4. TogetherInv'
  <2>1. \A l \in Lane : seen[l] \in Nat
    BY DEF IInv, TeamTypeOK
  <2> QED
    BY <1>1, <1>2, <1>3, <2>1, LanesAreFinite DEF IInv, TogetherInv
<1>5. FenceInv'
  <2>1. {l \in Lane : Waits(l)}' = {l \in Lane : Waits(l)}
    BY <1>2
  <2> QED
    BY <1>1, <1>2, <2>1 DEF IInv, FenceInv
<1>6. ClaimInv'
  BY <1>1, <1>2 DEF IInv, ClaimInv
<1>7. LastInv'
  BY <1>1 DEF LastInv
<1> QED
  BY <1>4, <1>5, <1>6, <1>7 DEF IInv

LEMMA OwnerKeeps ==
  ASSUME Sizes, IInv, TeamTypeOK', Retire \/ SignalAll \/ UNCHANGED lanes
  PROVE  IInv'
<1>1. /\ UNCHANGED <<laneGen, seen, at, stage, tile, entry, gen, arrived, next, ran>>
      /\ retire' => retire \/ (seen[0] = laneGen /\ at[0] \in {"published", "look", "wait"})
  BY DEF Retire, SignalAll, Between, lanes, pass, place, fence, work, IInv, TeamTypeOK
<1>2. \A l \in Lane : /\ Due(l)' = Due(l) /\ (Idle(l)' <=> Idle(l))
                      /\ (Waits(l)' <=> Waits(l)) /\ (Comes(l)' <=> Comes(l))
  BY <1>1 DEF Due, Idle, Comes, Waits
<1>3. TogetherInv'
  BY <1>1, <1>2, LanesAreFinite DEF IInv, TogetherInv
<1>4. FenceInv'
  <2>1. {l \in Lane : Waits(l)}' = {l \in Lane : Waits(l)}
    BY <1>2
  <2> QED
    BY <1>1, <1>2, <2>1 DEF IInv, FenceInv
<1>5. ClaimInv'
  BY <1>1, <1>2 DEF IInv, ClaimInv
<1>6. LastInv'
  BY <1>1 DEF IInv, LastInv
<1> QED
  BY <1>3, <1>4, <1>5, <1>6 DEF IInv

-----------------------------------------------------------------------------
LEMMA InitIInv == ASSUME Sizes, TeamInit PROVE IInv
<1>1. /\ 0 \in Lane /\ laneGen = 0 /\ retire = FALSE /\ gen = 0 /\ arrived = 0 /\ next = 0
      /\ \A l \in Lane : /\ at[l] = "look" /\ seen[l] = 0 /\ stage[l] = 1
                         /\ tile[l] = 0 /\ entry[l] = 0
      /\ \A i \in 0..Tiles - 1 : ran[i] = 0
  BY LanesAreFinite DEF TeamInit
<1>2. TeamTypeOK
  <2>1. 1 \in 1..Stages + 1 /\ 0 \in 0..Tiles /\ "look" \in LanePlaces
    BY DEF Sizes, LanePlaces
  <2> QED
    BY <2>1 DEF TeamInit, TeamTypeOK
<1>3. TogetherInv
  BY <1>1 DEF TogetherInv, Due, Idle
<1>4. FenceInv
  <2>1. {l \in Lane : Waits(l)} = {}
    BY <1>1 DEF Waits
  <2> QED
    BY <1>1, <2>1, FS_EmptySet DEF FenceInv
<1>5. ClaimInv
  BY <1>1 DEF ClaimInv, Comes, Waits
<1>6. LastInv
  BY <1>1 DEF LastInv
<1> QED
  BY <1>2, <1>3, <1>4, <1>5, <1>6 DEF IInv

LEMMA NextIInv == ASSUME Sizes, IInv, [TeamNext]_lanes PROVE IInv'
<1>1. TeamTypeOK'
  BY Typed DEF IInv
<1>2. ASSUME NEW l \in Lane, LaneStep(l)
      PROVE  IInv'
  <2>1. CASE Look(l) \/ DispatchWait(l)
    BY <1>1, <2>1, LookKeeps, DispatchWaitKeeps
  <2>2. CASE Arrive(l)
    BY <1>1, <2>2, ArriveKeeps
  <2>3. CASE Serial(l)
    BY <1>1, <2>3, SerialKeeps
  <2>4. CASE Collect(l) \/ RingFence(l) \/ Park(l) \/ Gate(l) \/ FenceWait(l)
    BY <1>1, <2>4, FenceKeeps
  <2>5. CASE Claim(l)
    BY <1>1, <2>5, ClaimKeeps
  <2>6. CASE Run(l)
    BY <1>1, <2>6, RunKeeps
  <2>7. CASE l = 0 /\ (LanePublish \/ Published)
    BY <1>1, <2>7, PublishKeeps
  <2> QED
    BY <1>2, <2>1, <2>2, <2>3, <2>4, <2>5, <2>6, <2>7 DEF LaneStep
<1>3. CASE NewGeneration
  BY <1>1, <1>3, NewGenerationKeeps
<1>4. CASE Retire \/ SignalAll \/ UNCHANGED lanes
  BY <1>1, <1>4, OwnerKeeps
<1> QED
  BY <1>2, <1>3, <1>4 DEF TeamNext

(* The lanes are always due at the same fence, which counts those who wait *)
(* at it, and a claimed tile is running or has run once.                   *)
THEOREM TeamInvariant == Sizes => (TeamSpec => []IInv)
<1> SUFFICES ASSUME Sizes PROVE TeamSpec => []IInv
  OBVIOUS
<1>1. TeamInit => IInv
  BY InitIInv
<1>2. IInv /\ [TeamNext]_lanes => IInv'
  BY NextIInv
<1> QED
  BY <1>1, <1>2, PTL DEF TeamSpec

-----------------------------------------------------------------------------
LEMMA SerialIsAlone == ASSUME Sizes, IInv, NEW l \in Lane, at[l] = "serial"
                       PROVE  \A m \in Lane : m = l \/ at[m] \in {"park", "gate", "parked"}
  BY DEF IInv, FenceInv, Waits

(* TilesRunOnce, the lanes' promise to each other: no lane is ahead of a   *)
(* fence, and each tile of a stage has run exactly once at the next.       *)
THEOREM TeamTilesRunOnce == Sizes => (TeamSpec => []TilesRunOnce)
<1> SUFFICES ASSUME Sizes PROVE TeamSpec => []TilesRunOnce
  OBVIOUS
<1>1. ASSUME IInv PROVE TilesRunOnce
  <2>1. ASSUME NEW l \in Lane, NEW m \in Lane, l # m, at[l] = "tile", Working(m)
        PROVE  at[m] = "tile" /\ stage[m] = stage[l] /\ tile[m] # tile[l]
    <3>1. at[m] = "tile"
      BY <1>1, <2>1, SerialIsAlone DEF Working
    <3>2. Due(l) = Due(m)
      BY <1>1 DEF IInv, TogetherInv
    <3>3. /\ stage[l] \in Nat /\ stage[l] <= Stages /\ stage[m] \in Nat /\ stage[m] <= Stages
          /\ Stages \in Nat
      BY <1>1, <2>1, <3>1 DEF IInv, TeamTypeOK, TogetherInv, Sizes
    <3>4. Due(l).stage = stage[l] + 1 /\ Due(m).stage = stage[m] + 1
      BY <2>1, <3>1, <3>3 DEF Due, Idle, Comes, Waits
    <3>5. tile[m] # tile[l]
      BY <1>1, <2>1, <3>1 DEF IInv, ClaimInv
    <3> QED
      BY <3>1, <3>2, <3>3, <3>4, <3>5
  <2>2. ASSUME NEW l \in Lane, at[l] = "serial", stage[l] > 1, NEW i \in 0..Tiles - 1
        PROVE  ran[i] = 1
    <3>1. Tiles <= next /\ next \in Nat /\ Tiles \in Nat
      BY <1>1, <2>2 DEF IInv, TeamTypeOK, ClaimInv, Comes, Waits, Sizes
    <3>2. \A m \in Lane : at[m] # "tile"
      BY <1>1, <2>2, SerialIsAlone
    <3> QED
      BY <1>1, <2>2, <3>1, <3>2 DEF IInv, ClaimInv
  <2> QED
    BY <2>1, <2>2 DEF TilesRunOnce
<1> QED
  BY <1>1, TeamInvariant, PTL

-----------------------------------------------------------------------------
(* The team implements the crew.                                           *)
Rests == seen[0] = laneGen /\ at[0] \in {"published", "look", "wait", "gone"}

\* What the mapping says while some lane is left.
LEMMA TheCrewIs ==
  ASSUME Sizes, NEW l \in Lane, at[l] # "gone"
  PROVE  CrewIs = IF at[0] = "publish" THEN "publish"
                  ELSE IF Begun /\ ~Rests THEN "running" ELSE "resting"
  BY DEF CrewIs, Rests

LEMMA TheCrewWillBe ==
  ASSUME Sizes, NEW l \in Lane, at'[l] # "gone"
  PROVE  CrewIs' = IF at'[0] = "publish" THEN "publish"
                   ELSE IF Begun' /\ ~Rests' THEN "running" ELSE "resting"
  BY DEF CrewIs, Rests

LEMMA WorkIsRunning ==
  ASSUME Sizes, IInv, NEW l \in Lane, Working(l)
  PROVE  CrewIs = "running"
<1>1. 0 \in Lane /\ at[l] \in {"serial", "tile"}
  BY LanesAreFinite DEF Working
<1>2. /\ stage[l] \in Nat /\ seen[l] \in Nat /\ laneGen \in Nat /\ Stages \in Nat
      /\ stage[l] >= 1
  BY DEF IInv, TeamTypeOK, Sizes
<1>3. /\ Due(l) = Due(0) /\ seen[l] > 0 /\ seen[l] <= laneGen /\ laneGen <= Due(l).pass
      /\ at[l] = "tile" => stage[l] <= Stages
  BY <1>1 DEF IInv, TogetherInv, Idle
<1>4. ~Idle(0)
  <2>1. CASE at[l] = "serial"
    BY <1>1, <2>1, SerialIsAlone DEF Idle
  <2>2. CASE at[l] = "tile"
    <3>1. Due(l).stage = stage[l] + 1
      BY <1>2, <1>3, <2>2 DEF Due, Idle, Comes, Waits
    <3>2. Idle(0) => Due(0).stage = 1
      BY DEF Due
    <3> QED
      BY <1>2, <1>3, <3>1, <3>2
  <2> QED
    BY <1>1, <2>1, <2>2
<1>5. Due(l).pass = seen[l]
  BY <1>1, <1>2, <1>3 DEF Due, Idle, Comes, Waits
<1>6. Begun
  BY <1>2, <1>3, <1>5 DEF Begun
<1> QED
  BY <1>1, <1>4, <1>6, TheCrewIs DEF Idle, Rests

LEMMA InitCrew == ASSUME Sizes, TeamInit PROVE Contract!Init
<1>1. 0 \in Lane /\ laneGen = 0 /\ retire = FALSE /\ at[0] = "look"
  BY LanesAreFinite DEF TeamInit
<1>2. ~Begun
  BY <1>1 DEF Begun
<1>3. CrewIs = "resting"
  BY <1>1, <1>2, TheCrewIs
<1> QED
  BY <1>1, <1>2, <1>3 DEF Contract!Init

(* A step of one lane inside a pass, or between passes.                    *)
LEMMA CrewStutters ==
  ASSUME Sizes, IInv, NEW l \in Lane, UNCHANGED <<laneGen, retire, seen>>,
         \A m \in Lane \ {l} : at'[m] = at[m], at[l] # "gone", at'[l] # "gone",
         l = 0 => /\ at[0] \notin {"publish", "published"} /\ at'[0] \notin {"publish", "published"}
                  /\ at[0] \in {"look", "wait"} <=> at'[0] \in {"look", "wait"}
  PROVE  UNCHANGED Contract!vars
<1>1. 0 \in Lane
  BY LanesAreFinite
<1>2. /\ at'[0] = "publish" <=> at[0] = "publish"
      /\ at'[0] = "published" <=> at[0] = "published"
      /\ Rests' <=> Rests
  BY <1>1 DEF Rests
<1>3. Begun' <=> Begun
  BY DEF Begun
<1>4. CrewIs' = CrewIs
  BY <1>2, <1>3, TheCrewIs, TheCrewWillBe
<1>5. (~Begun /\ laneGen > 0)' = (~Begun /\ laneGen > 0)
  BY <1>3
<1>6. (at[0] = "published")' = (at[0] = "published")
  BY <1>2
<1> QED
  BY <1>4, <1>5, <1>6 DEF Contract!vars

LEMMA OrderIsOrder == ASSUME Sizes, IInv, NewGeneration PROVE Contract!Order
<1>1. /\ 0 \in Lane /\ laneGen \in Nat /\ laneGen' = laneGen + 1 /\ ~retire
      /\ at[0] \in {"published", "look", "wait"} /\ seen[0] = laneGen
      /\ UNCHANGED <<seen, at, retire>>
  BY LanesAreFinite DEF NewGeneration, Between, place, IInv, TeamTypeOK
<1>2. laneGen > 0 => Begun
  BY <1>1 DEF Begun
<1>3. ~Begun'
  <2>1. \A l \in Lane : seen[l] \in Nat /\ seen[l] <= laneGen
    BY DEF IInv, TeamTypeOK, TogetherInv
  <2> QED
    BY <1>1, <2>1 DEF Begun
<1>4. CrewIs = "resting" /\ CrewIs' = "resting"
  BY <1>1, <1>3, TheCrewIs, TheCrewWillBe DEF Rests
<1> QED
  BY <1>1, <1>2, <1>3, <1>4 DEF Contract!Order

LEMMA RetireIsRetire == ASSUME Sizes, IInv, Retire PROVE Contract!Retire
<1>1. /\ 0 \in Lane /\ ~retire /\ retire' = TRUE
      /\ at[0] \in {"published", "look", "wait"} /\ seen[0] = laneGen
      /\ UNCHANGED <<laneGen, seen, at>> /\ laneGen \in Nat
  BY LanesAreFinite DEF Retire, Between, place, IInv, TeamTypeOK
<1>2. (laneGen > 0 => Begun) /\ (Begun' <=> Begun)
  BY <1>1 DEF Begun
<1>3. CrewIs = "resting" /\ CrewIs' = "resting"
  BY <1>1, TheCrewIs, TheCrewWillBe DEF Rests
<1> QED
  BY <1>1, <1>2, <1>3 DEF Contract!Retire

LEMMA LookIsStartOrGo == ASSUME Sizes, IInv, NEW l \in Lane, Look(l) PROVE [Contract!Next]_Contract!vars
<1>1. /\ 0 \in Lane /\ at[l] = "look" /\ laneGen \in Nat /\ retire \in BOOLEAN
      /\ UNCHANGED <<laneGen, retire>>
      /\ \A m \in Lane \ {l} : at'[m] = at[m] /\ seen'[m] = seen[m]
  BY LanesAreFinite DEF Look, Goto, pass, IInv, TeamTypeOK
<1>2. CASE retire
  <2>1. at'[l] = "gone" /\ seen' = seen
    BY <1>2 DEF Look, Goto, IInv, TeamTypeOK
  <2>2. /\ seen[0] = laneGen
        /\ at[0] \in {"look", "wait", "published", "gone"}
        /\ at'[0] \in {"look", "wait", "published", "gone"}
        /\ at'[0] = "published" <=> at[0] = "published"
    BY <1>1, <1>2, <2>1 DEF IInv, LastInv
  <2>3. (Begun' <=> Begun) /\ (laneGen > 0 => Begun)
    BY <1>1, <2>1, <2>2 DEF Begun
  <2>4. CrewIs = "resting"
    BY <1>1, <2>2, TheCrewIs DEF Rests
  <2>5. CASE \A m \in Lane : at'[m] = "gone"
    <3>1. CrewIs' = "gone"
      BY <2>5 DEF CrewIs
    <3>2. at'[0] # "published" /\ at[0] # "published"
      BY <1>1, <2>2, <2>5
    <3> QED
      BY <1>1, <1>2, <2>3, <2>4, <3>1, <3>2 DEF Contract!Next, Contract!Work, Contract!Go
  <2>6. CASE \E m \in Lane : at'[m] # "gone"
    <3>1. CrewIs' = "resting"
      BY <1>1, <2>1, <2>2, <2>6, TheCrewWillBe DEF Rests
    <3> QED
      BY <1>1, <2>2, <2>3, <2>4, <3>1 DEF Contract!vars
  <2> QED
    BY <2>5, <2>6
<1>3. CASE ~retire /\ laneGen = seen[l]
  <2>1. at'[l] = "wait" /\ UNCHANGED seen
    BY <1>3 DEF Look, Goto, IInv, TeamTypeOK
  <2> QED
    BY <1>1, <2>1, CrewStutters
<1>4. CASE ~retire /\ laneGen # seen[l]
  <2>1. at'[l] = "arrive" /\ seen'[l] = laneGen
    BY <1>4 DEF Look, Goto, IInv, TeamTypeOK
  <2>2. laneGen > 0
    <3>1. seen[l] \in Nat /\ seen[l] <= laneGen
      BY DEF IInv, TeamTypeOK, TogetherInv
    <3> QED
      BY <1>1, <1>4, <3>1
  <2>3. Begun'
    BY <1>1, <2>1, <2>2 DEF Begun
  <2>4. /\ at'[0] = "publish" <=> at[0] = "publish"
        /\ at'[0] = "published" <=> at[0] = "published"
    BY <1>1, <2>1
  <2>5. CASE ~Begun
    <3>1. seen[0] # laneGen
      BY <1>1, <2>2, <2>5 DEF Begun
    <3>2. at[0] # "publish"
      BY <3>1 DEF IInv, LastInv
    <3>3. CrewIs = "resting"
      BY <1>1, <2>5, <3>2, TheCrewIs
    <3>4. ~Rests'
      BY <1>1, <2>1, <3>1 DEF Rests
    <3>5. CrewIs' = "running"
      BY <2>1, <2>3, <2>4, <3>2, <3>4, TheCrewWillBe
    <3> QED
      BY <1>1, <2>2, <2>3, <2>4, <2>5, <3>3, <3>5 DEF Contract!Next, Contract!Work, Contract!Start
  <2>6. CASE Begun
    <3>1. Rests' <=> Rests
      BY <1>1, <1>4, <2>1 DEF Rests
    <3>2. CrewIs' = CrewIs
      BY <1>1, <2>1, <2>3, <2>4, <2>6, <3>1, TheCrewIs, TheCrewWillBe
    <3> QED
      BY <1>1, <2>3, <2>4, <2>6, <3>2 DEF Contract!vars
  <2> QED
    BY <2>5, <2>6
<1> QED
  BY <1>1, <1>2, <1>3, <1>4

LEMMA PublishIsPublish == ASSUME Sizes, IInv, LanePublish PROVE Contract!Publish
<1>1. /\ 0 \in Lane /\ at[0] = "publish" /\ at'[0] = "published" /\ seen[0] = laneGen
      /\ UNCHANGED <<laneGen, retire, seen>>
  BY LanesAreFinite DEF LanePublish, Goto, pass, IInv, TeamTypeOK, LastInv
<1>2. CrewIs = "publish" /\ CrewIs' = "resting" /\ (Begun' <=> Begun)
  BY <1>1, TheCrewIs, TheCrewWillBe DEF Rests, Begun
<1> QED
  BY <1>1, <1>2 DEF Contract!Publish

LEMMA PublishedIsRing == ASSUME Sizes, IInv, Published PROVE Contract!Ring
<1>1. /\ 0 \in Lane /\ at[0] = "published" /\ at'[0] = "look"
      /\ UNCHANGED <<laneGen, retire, seen>>
  BY LanesAreFinite DEF Published, Goto, pass, IInv, TeamTypeOK
<1>2. (Rests' <=> Rests) /\ (Begun' <=> Begun)
  BY <1>1 DEF Rests, Begun
<1>3. CrewIs' = CrewIs
  BY <1>1, <1>2, TheCrewIs, TheCrewWillBe
<1> QED
  BY <1>1, <1>2, <1>3 DEF Contract!Ring

(* Lane 0 ends the pass; a lane that goes on does nothing the crew shows.  *)
LEMMA CrossIsLand ==
  ASSUME Sizes, IInv, NEW l \in Lane, UNCHANGED <<laneGen, retire, seen>>,
         \A m \in Lane \ {l} : at'[m] = at[m],
         at[l] \in {"collect", "ring", "gate"}, at'[l] = AfterFence(l)
  PROVE  Contract!Land \/ UNCHANGED Contract!vars
<1>1. /\ 0 \in Lane
      /\ \/ at'[l] = "claim"
         \/ at'[l] = "look" /\ l # 0
         \/ at'[l] = "publish" /\ l = 0
  BY LanesAreFinite DEF AfterFence
<1>2. CASE l = 0 /\ at'[l] = "publish"
  <2>1. seen[0] = laneGen /\ laneGen > 0
    BY <1>1, <1>2 DEF IInv, LastInv, TogetherInv, Idle
  <2>2. Begun /\ Begun' /\ ~Rests
    BY <1>1, <1>2, <2>1 DEF Begun, Rests
  <2>3. CrewIs = "running" /\ CrewIs' = "publish"
    BY <1>1, <1>2, <2>2, TheCrewIs, TheCrewWillBe
  <2> QED
    BY <1>2, <2>2, <2>3 DEF Contract!Land
<1>3. CASE ~(l = 0 /\ at'[l] = "publish")
  BY <1>1, <1>3, CrewStutters
<1> QED
  BY <1>2, <1>3

LEMMA StepIsCrewStep == ASSUME Sizes, IInv, [TeamNext]_lanes PROVE [Contract!Next]_Contract!vars
<1>1. ASSUME NEW l \in Lane, LaneStep(l)
      PROVE  [Contract!Next]_Contract!vars
  <2>1. CASE Look(l)
    BY <2>1, LookIsStartOrGo
  <2>2. CASE \/ DispatchWait(l) \/ Arrive(l) \/ Serial(l) \/ Park(l) \/ FenceWait(l)
             \/ Claim(l) \/ Run(l)
    <3>1. /\ UNCHANGED <<laneGen, retire, seen>>
          /\ \A m \in Lane \ {l} : at'[m] = at[m]
          /\ \/ at[l] = "wait" /\ at'[l] = "look"
             \/ /\ at[l] \in {"arrive", "serial", "park", "parked", "claim", "tile"}
                /\ at'[l] \in {"serial", "park", "collect", "gate", "tile", "arrive", "claim"}
      <4>1. CASE DispatchWait(l) \/ Arrive(l) \/ Serial(l)
        BY <4>1 DEF DispatchWait, Arrive, Serial, Goto, pass, IInv, TeamTypeOK
      <4>2. CASE Park(l) \/ FenceWait(l)
        BY <4>2 DEF Park, FenceWait, Goto, pass, IInv, TeamTypeOK
      <4>3. CASE Claim(l) \/ Run(l)
        BY <4>3 DEF Claim, Run, AfterTiles, Goto, pass, IInv, TeamTypeOK
      <4> QED
        BY <2>2, <4>1, <4>2, <4>3
    <3> QED
      BY <3>1, CrewStutters
  <2>3. CASE Collect(l) \/ RingFence(l) \/ Gate(l)
    <3>1. /\ UNCHANGED <<laneGen, retire, seen>>
          /\ \A m \in Lane \ {l} : at'[m] = at[m]
          /\ at[l] \in {"collect", "ring", "gate"}
          /\ at'[l] \in {"ring", "parked"} \/ at'[l] = AfterFence(l)
      BY <2>3 DEF Collect, RingFence, Gate, Goto, pass, IInv, TeamTypeOK
    <3>2. CASE at'[l] = AfterFence(l)
      BY <3>1, <3>2, CrossIsLand DEF Contract!Next, Contract!Work
    <3>3. CASE at'[l] \in {"ring", "parked"}
      BY <3>1, <3>3, CrewStutters
    <3> QED
      BY <3>1, <3>2, <3>3
  <2>4. CASE l = 0 /\ (LanePublish \/ Published)
    BY <2>4, PublishIsPublish, PublishedIsRing DEF Contract!Next, Contract!Work
  <2> QED
    BY <1>1, <2>1, <2>2, <2>3, <2>4 DEF LaneStep
<1>2. CASE NewGeneration \/ Retire
  BY <1>2, OrderIsOrder, RetireIsRetire DEF Contract!Next
<1>3. CASE SignalAll \/ UNCHANGED lanes
  <2>1. UNCHANGED <<laneGen, retire, seen, at>>
    BY <1>3 DEF SignalAll, lanes, pass, place
  <2>2. (Begun' <=> Begun) /\ CrewIs' = CrewIs
    BY <2>1 DEF Begun, CrewIs
  <2> QED
    BY <2>1, <2>2 DEF Contract!vars
<1> QED
  BY <1>1, <1>2, <1>3 DEF TeamNext

(* ImplementsCrew: for any number of lanes, what the team does is what the *)
(* dispatcher and the owner may rely on, and no tile is running once lane  *)
(* 0 has published.                                                        *)
THEOREM TeamImplementsCrew == Sizes => (TeamSpec => ImplementsCrew)
<1> SUFFICES ASSUME Sizes PROVE TeamSpec => ImplementsCrew
  OBVIOUS
<1>1. TeamInit => Contract!Init
  BY InitCrew
<1>2. IInv /\ [TeamNext]_lanes => [Contract!Next]_Contract!vars
  BY StepIsCrewStep
<1>3. IInv => \A l \in Lane : Working(l) => CrewIs = "running"
  BY WorkIsRunning
<1> QED
  BY <1>1, <1>2, <1>3, TeamInvariant, PTL DEF TeamSpec, Contract!Spec, ImplementsCrew

=============================================================================
