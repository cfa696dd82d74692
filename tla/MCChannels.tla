------------------------------- MODULE MCChannels ------------------------------
(***************************************************************************)
(* The two halves of a bridge writer for TLC: a behaviour is about a       *)
(* command queue or about a data ring.  What one of them changes, no step  *)
(* of the other reads.                                                     *)
(***************************************************************************)
EXTENDS CommandQueue, DataRing

VARIABLE about

mcVars == <<circularVars, ringVars, about>>

(* One ring that is wide enough for its command queue and one that is not.  *)
(* In either of them pushes of one word and of two end exactly at the end.  *)
WideAndNarrow == {[TotalSize |-> 7, CmdCapacity |-> 1], [TotalSize |-> 5, CmdCapacity |-> 1]}

(* A ring that three pushes of two words fill to its end.                   *)
EndExactly == {[TotalSize |-> 6, CmdCapacity |-> 1]}

--------------------------------------------------------------------------------
(* A behaviour leaves what it is not about as it is at first.               *)
MCInit ==
  /\ about \in {"queue", "ring"}
  /\ InitQueue /\ InitRing
  /\ about = "queue" \/ m_publishBatch = 1
  /\ about = "ring" \/ ring = (CHOOSE r \in Rings : TRUE)

(* A ring may stop: its client exits where the server does not answer.      *)
MCNext ==
  \/ about = "ring" /\ UNCHANGED mcVars
  \/ about = "queue" /\ QueueNext /\ UNCHANGED <<ringVars, about>>
  \/ about = "ring" /\ RingNext /\ UNCHANGED <<circularVars, about>>

(* The fairness of QueueFairSpec and RingFairSpec, each in the behaviours   *)
(* that are about its component.                                            *)
Queueing(A) == about = "queue" /\ A
Pushing(A) == about = "ring" /\ At(A)

MCFairSpec ==
  /\ MCInit /\ [][MCNext]_mcVars
  /\ WF_circularVars(Queueing(Reload)) /\ WF_circularVars(Queueing(Store))
  /\ WF_circularVars(Queueing(PublishBatchFull)) /\ WF_circularVars(Queueing(WaitWhileFull))
  /\ SF_circularVars(Queueing(Operation("pull"))) /\ WF_circularVars(Queueing(Poll))
  /\ WF_circularVars(Queueing(PeekReturns))
  /\ WF_circularVars(Queueing(CopyOut)) /\ WF_circularVars(Queueing(Advance))
  /\ WF_ringVars(Pushing(Wrap)) /\ WF_ringVars(Pushing(Wrapped))
  /\ WF_ringVars(Pushing(Test)) /\ WF_ringVars(Pushing(Reread)) /\ WF_ringVars(Pushing(Retest))
  /\ WF_ringVars(Pushing(RequestSpace)) /\ WF_ringVars(Pushing(RetriesExhausted))
  /\ WF_ringVars(Pushing(ResumePush)) /\ WF_ringVars(Pushing(Write))
================================================================================
