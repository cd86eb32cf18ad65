-------------------------------- MODULE Team --------------------------------
(***************************************************************************)
(* The lane team of                                                        *)
(* crates/liquid-audio/native/src/engine/flashkern_engine.cpp: a thread    *)
(* for each lane, which sleeps on the dispatch word between passes, runs   *)
(* the stages of a pass and meets the others at a fence before each stage  *)
(* and after the last.  What a tile computes is left out; a pass is its    *)
(* Stages stages of Tiles tiles each.                                      *)
(*                                                                         *)
(* Of a futex word only one thing matters to a lane, whether it still has  *)
(* the value the lane expects: the lanes for which it has not are in       *)
(* awake and in roused.                                                    *)
(***************************************************************************)
EXTENDS Naturals, FiniteSets

CONSTANTS
  Lanes, Stages, Tiles,
  MaxOrders        \* bound on the passes of a behaviour

Lane == 0..Lanes - 1

VARIABLES
  laneGen, retire,
  told,         \* were the lanes signalled since the last store?
  seen,         \* the generation each lane ran last
  at,           \* where each lane is
  stage,        \* the stage a lane is about to enter, or in; the final fence
                \* counts as one
  tile,         \* the tile a lane claimed
  entry,        \* the fence generation a lane found when it arrived
  gen, arrived, parkMask,
  awake,        \* lanes whose view of the dispatch word is out of date
  roused,       \* lanes whose view of the fence word is out of date
  next,         \* the claim counter
  ran           \* how often each tile of the stage has run (a record)

pass == <<laneGen, retire, told>>
place == <<seen, at, stage, tile, entry>>
fence == <<gen, arrived, parkMask, roused>>
work == <<next, ran>>
lanes == <<pass, place, fence, awake, work>>

LanePlaces == {"look", "wait", "arrive", "serial", "collect", "ring", "park", "gate",
               "parked", "claim", "tile", "publish", "published", "gone"}

TeamTypeOK ==
  /\ laneGen \in Nat /\ retire \in BOOLEAN /\ told \in BOOLEAN
  /\ seen \in [Lane -> Nat]
  /\ at \in [Lane -> LanePlaces]
  /\ stage \in [Lane -> 1..Stages + 1]
  /\ tile \in [Lane -> 0..Tiles]
  /\ entry \in [Lane -> Nat]
  /\ gen \in Nat /\ arrived \in Nat
  /\ parkMask \in SUBSET Lane
  /\ awake \in SUBSET Lane
  /\ roused \in SUBSET Lane
  /\ next \in Nat
  /\ ran \in [0..Tiles - 1 -> Nat]

TeamInit ==
  /\ laneGen = 0 /\ retire = FALSE /\ told = TRUE
  /\ seen = [l \in Lane |-> 0]
  /\ at = [l \in Lane |-> "look"]
  /\ stage = [l \in Lane |-> 1]
  /\ tile = [l \in Lane |-> 0]
  /\ entry = [l \in Lane |-> 0]
  /\ gen = 0 /\ arrived = 0 /\ parkMask = {}
  /\ awake = {} /\ roused = {}
  /\ next = 0
  /\ ran = [i \in 0..Tiles - 1 |-> 0]

Goto(l, p) == at' = [at EXCEPT ![l] = p]

-----------------------------------------------------------------------------
(* The dispatcher and the owner: each stores, then signals all.  Module    *)
(* Coordinator shows that they do so only between passes.                  *)
Between == told /\ at[0] \in {"published", "look", "wait"} /\ seen[0] = laneGen

NewGeneration ==
  /\ Between /\ ~retire /\ laneGen < MaxOrders
  /\ laneGen' = laneGen + 1
  /\ told' = FALSE
  /\ UNCHANGED <<retire, place, fence, awake, work>>

Retire ==
  /\ Between /\ ~retire
  /\ retire' = TRUE
  /\ told' = FALSE
  /\ UNCHANGED <<laneGen, place, fence, awake, work>>

SignalAll ==
  /\ ~told
  /\ awake' = Lane
  /\ told' = TRUE
  /\ UNCHANGED <<laneGen, retire, place, fence, work>>

-----------------------------------------------------------------------------
(* lane_main *)

Look(l) ==
  /\ at[l] = "look"
  /\ \/ retire /\ Goto(l, "gone") /\ UNCHANGED <<seen, stage>>
     \/ ~retire /\ laneGen = seen[l] /\ Goto(l, "wait") /\ UNCHANGED <<seen, stage>>
     \/ /\ ~retire
        /\ laneGen # seen[l]
        /\ seen' = [seen EXCEPT ![l] = laneGen]
        /\ stage' = [stage EXCEPT ![l] = 1]
        /\ Goto(l, "arrive")
  /\ UNCHANGED <<pass, tile, entry, fence, awake, work>>

\* The wait returns when the word differs, and the lane loads the new value.
DispatchWait(l) ==
  /\ at[l] = "wait"
  /\ l \in awake
  /\ awake' = awake \ {l}
  /\ Goto(l, "look")
  /\ UNCHANGED <<pass, seen, stage, tile, entry, fence, work>>

-----------------------------------------------------------------------------
(* lane_fence *)

AfterFence(l) ==
  IF stage[l] <= Stages THEN "claim" ELSE IF l = 0 THEN "publish" ELSE "look"

IsLast(n) == n + 1 = Lanes

Arrive(l) ==
  /\ at[l] = "arrive"
  /\ entry' = [entry EXCEPT ![l] = gen]
  /\ arrived' = arrived + 1
  /\ Goto(l, IF IsLast(arrived) THEN "serial" ELSE "park")
  /\ UNCHANGED <<pass, seen, stage, tile, gen, parkMask, roused, awake, work>>

\* Slip: the claim counter goes on where the stage before left it.
NoReset == next

FirstTile == 0

(* The serial section resets the claim counter, but at the final fence,    *)
(* which has none.  The arrivals are reset before the fence opens; the     *)
(* other lanes look at the generation only.                                *)
Serial(l) ==
  /\ at[l] = "serial"
  /\ IF stage[l] <= Stages
       THEN next' = FirstTile /\ ran' = [i \in 0..Tiles - 1 |-> 0]
       ELSE UNCHANGED work
  /\ arrived' = 0
  /\ gen' = gen + 1
  /\ Goto(l, "collect")
  /\ UNCHANGED <<pass, seen, stage, tile, entry, parkMask, roused, awake>>

Collect(l) ==
  /\ at[l] = "collect"
  /\ parkMask' = {}
  /\ Goto(l, IF parkMask = {} THEN AfterFence(l) ELSE "ring")
  /\ UNCHANGED <<pass, seen, stage, tile, entry, gen, arrived, roused, awake, work>>

RingFence(l) ==
  /\ at[l] = "ring"
  /\ roused' = Lane
  /\ Goto(l, AfterFence(l))
  /\ UNCHANGED <<pass, seen, stage, tile, entry, gen, arrived, parkMask, awake, work>>

(* A lane that is not the last loads the word it will sleep on and says    *)
(* that it parks.                                                          *)
Park(l) ==
  /\ at[l] = "park"
  /\ roused' = roused \ {l}
  /\ parkMask' = parkMask \cup {l}
  /\ Goto(l, "gate")
  /\ UNCHANGED <<pass, seen, stage, tile, entry, gen, arrived, awake, work>>

(* Has the fence opened?  The lane looks before it sleeps and whenever it  *)
(* was woken.                                                              *)
Gate(l) ==
  /\ at[l] = "gate"
  /\ IF gen # entry[l]
       THEN parkMask' = parkMask \ {l} /\ Goto(l, AfterFence(l))
       ELSE Goto(l, "parked") /\ UNCHANGED parkMask
  /\ UNCHANGED <<pass, seen, stage, tile, entry, gen, arrived, roused, awake, work>>

FenceWait(l) ==
  /\ at[l] = "parked"
  /\ l \in roused
  /\ roused' = roused \ {l}
  /\ Goto(l, "gate")
  /\ UNCHANGED <<pass, seen, stage, tile, entry, gen, arrived, parkMask, awake, work>>

-----------------------------------------------------------------------------
(* run_stage after its fence: claim tiles until there are none *)

\* Slip: the pass has no final fence.
NoFinalFence(l) ==
  IF stage[l] < Stages THEN "arrive" ELSE IF l = 0 THEN "publish" ELSE "look"

AfterTiles(l) == "arrive"

Claim(l) ==
  /\ at[l] = "claim"
  /\ next' = next + 1
  /\ IF next < Tiles
       THEN tile' = [tile EXCEPT ![l] = next] /\ Goto(l, "tile") /\ UNCHANGED stage
       ELSE /\ stage' = [stage EXCEPT ![l] = @ + 1]
            /\ Goto(l, AfterTiles(l))
            /\ UNCHANGED tile
  /\ UNCHANGED <<pass, seen, entry, fence, awake, ran>>

Run(l) ==
  /\ at[l] = "tile"
  /\ ran' = [ran EXCEPT ![tile[l]] = @ + 1]
  /\ Goto(l, "claim")
  /\ UNCHANGED <<pass, seen, stage, tile, entry, fence, awake, next>>

(* Lane 0 publishes the pass and rings the bridge's doorbell.              *)
LanePublish ==
  /\ at[0] = "publish"
  /\ Goto(0, "published")
  /\ UNCHANGED <<pass, seen, stage, tile, entry, fence, awake, work>>

Published ==
  /\ at[0] = "published"
  /\ Goto(0, "look")
  /\ UNCHANGED <<pass, seen, stage, tile, entry, fence, awake, work>>

LaneStep(l) ==
  \/ Look(l) \/ DispatchWait(l)
  \/ Arrive(l) \/ Serial(l) \/ Collect(l) \/ RingFence(l)
  \/ Park(l) \/ Gate(l) \/ FenceWait(l)
  \/ Claim(l) \/ Run(l)
  \/ l = 0 /\ (LanePublish \/ Published)

TeamNext == NewGeneration \/ Retire \/ SignalAll \/ \E l \in Lane : LaneStep(l)

TeamFairness == WF_lanes(SignalAll) /\ \A l \in 0..Lanes - 1 : WF_lanes(LaneStep(l))

TeamSpec == TeamInit /\ [][TeamNext]_lanes /\ TeamFairness

-----------------------------------------------------------------------------
Working(l) == at[l] \in {"serial", "tile"}

(* flashkern_engine.cpp:789-793 and :1802-1804: whatever the lanes'        *)
(* timing, no lane is ahead of a fence: while one runs a tile, the others  *)
(* that work run other tiles of the same stage, and a serial section       *)
(* begins when every tile of the stage before it has run exactly once.     *)
TilesRunOnce ==
  \A l, m \in Lane :
    /\ l # m /\ at[l] = "tile" /\ Working(m)
         => at[m] = "tile" /\ stage[m] = stage[l] /\ tile[m] # tile[l]
    /\ at[l] = "serial" /\ stage[l] > 1 => \A i \in 0..Tiles - 1 : ran[i] = 1

(* The team implements the crew: a pass that was ordered is run, landed    *)
(* and published once, by nobody any more when it is published, and lanes  *)
(* go only when they are retired and no pass is left.                      *)
Begun == laneGen > 0 /\ \E l \in Lane : seen[l] = laneGen

CrewIs ==
  IF \A l \in Lane : at[l] = "gone" THEN "gone"
  ELSE IF at[0] = "publish" THEN "publish"
  ELSE IF Begun /\ ~(seen[0] = laneGen /\ at[0] \in {"published", "look", "wait", "gone"}) THEN "running"
  ELSE "resting"

Contract == INSTANCE Crew WITH
       ordered <- ~Begun /\ laneGen > 0,
       retired <- retire,
       crew <- CrewIs,
       owes <- at[0] = "published"

ImplementsCrew == Contract!Spec /\ [](\A l \in Lane : Working(l) => CrewIs = "running")

(* The inductive strengthening.  Whatever their timing, all lanes are due  *)
(* at the same fence: a lane that waits at it holds the others back.       *)
Waits(l) ==
  \/ at[l] = "serial"
  \/ at[l] \in {"park", "gate", "parked"} /\ entry[l] = gen

Comes(l) == at[l] = "arrive" \/ Waits(l)

Idle(l) == at[l] \in {"look", "wait", "publish", "published", "gone"}

Due(l) ==
  IF Idle(l) \/ (~Comes(l) /\ stage[l] > Stages)
    THEN [pass |-> seen[l] + 1, stage |-> 1]
    ELSE [pass |-> seen[l], stage |-> IF Comes(l) THEN stage[l] ELSE stage[l] + 1]

TogetherInv ==
  \A l \in Lane :
    /\ Due(l) = Due(0)
    /\ seen[l] <= laneGen
    /\ laneGen <= Due(l).pass /\ Due(l).pass <= laneGen + 1
    /\ ~Idle(l) => seen[l] > 0
    /\ at[l] \in {"claim", "tile"} => stage[l] <= Stages

\* The fence counts those who wait at it; the last of them is the only serial one.
FenceInv ==
  /\ arrived = Cardinality({l \in Lane : Waits(l)})
  /\ \A l \in Lane :
       /\ at[l] \in {"park", "gate", "parked"} => entry[l] <= gen
       /\ at[l] = "serial" => \A m \in Lane : Waits(m) /\ (at[m] = "serial" => m = l)

\* Of the tiles claimed, one by each lane is running and the rest have run.
ClaimInv ==
  /\ \A l, m \in Lane : at[l] = "tile" /\ at[m] = "tile" /\ tile[l] = tile[m] => l = m
  /\ \A l \in Lane :
       /\ at[l] = "tile" => tile[l] < next /\ tile[l] < Tiles
       /\ Comes(l) /\ stage[l] > 1 => Tiles <= next
  /\ \A i \in 0..Tiles - 1 :
       ran[i] = IF i < next /\ (\A l \in Lane : at[l] = "tile" => tile[l] # i) THEN 1 ELSE 0

\* Lane 0 is in the last pass, and has finished it when the team is retired.
LastInv ==
  /\ at[0] \in {"look", "wait", "published", "gone"} \/ seen[0] = laneGen
  /\ retire => seen[0] = laneGen /\ at[0] \in {"look", "wait", "published", "gone"}

IInv == TeamTypeOK /\ TogetherInv /\ FenceInv /\ ClaimInv /\ LastInv

(* specs/11-kcoro-native-migration/00-current-state-audit.md:173-174: the  *)
(* fence loses no wake-up, so a pass that was ordered is published.        *)
EveryPassLands == seen[0] # laneGen /\ ~retire ~> at[0] = "published"

=============================================================================
