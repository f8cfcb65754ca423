------------------------------ MODULE MCTifm7xx1 ------------------------------
(* Small adapters for TLC.  In part "slots" everything may happen, with cards in    *)
(* one of the sockets; in part "live" both change, what makes the adapter deaf does *)
(* not happen, and interrupt, work item, resume and removal go on.                  *)
EXTENDS Tifm7xx1, TLC

CONSTANTS ms, sd

VARIABLE part

OneSocket  == {0}
TwoSockets == {0, 1}
OneType    == {ms}
TwoTypes   == {ms, sd}

Quiet == INSTANCE Tifm7xx1
           WITH MaxEvents <- 0, SharedLine <- FALSE, RegisterFails <- FALSE,
                ChangeOnResume <- FALSE

allVars == <<part, vars>>

PartsInit ==
  part \in {"slots", "live"} /\ Init /\ (part = "slots" => card[1] = NONE)

SlotsStep == part = "slots" /\ Next /\ card'[1] = NONE /\ UNCHANGED part
LiveStep  == part = "live" /\ Quiet!Next /\ UNCHANGED part
PartsNext == SlotsStep \/ LiveStep

InLive == part = "live" /\ UNCHANGED part

\* FairSpec of Quiet, in the one part.
PartsSpec ==
  /\ PartsInit /\ [][PartsNext]_allVars
  /\ WF_allVars(InLive /\ Quiet!IsrRead) /\ WF_allVars(InLive /\ Quiet!IsrRun)
  /\ WF_allVars(InLive /\ Quiet!Switch) /\ WF_allVars(InLive /\ Quiet!EjectRun)
  /\ WF_allVars(InLive /\ Quiet!Resume) /\ WF_allVars(InLive /\ Quiet!PowerUp)
  /\ WF_allVars(InLive /\ Quiet!Remove /\ rm # "no")

\* tifm_core.c, tifm_7xx1.c: when cards are left alone, each card gets a device and no
\* empty socket has one.
LiveCardSeen == part = "live" => CardSeen

\* tifm_7xx1_remove(): removal ends, whatever it has to wait for.
LiveRemoveEnds == part = "live" /\ rm # "no" ~> part = "slots" \/ rm = "freed"
=============================================================================
