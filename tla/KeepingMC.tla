----------------------------- MODULE KeepingMC ------------------------------
(***************************************************************************)
(* What users save, and the files, counters, mails and avatars that the    *)
(* server gives out, side by side: a behaviour is one of the part that it  *)
(* begins with.                                                            *)
(***************************************************************************)
EXTENDS ContentsMC, Outlets

VARIABLE part

MCMetrics == <<"m1", "m2">>

KeepingInit ==
  /\ ContentsInit /\ OutletsInit
  /\ \/ part = "contents" /\ outlet = "log"
     \/ part = "outlets" /\ topic = "expiry"

KeepingNext ==
  /\ UNCHANGED part
  /\ \/ part = "contents" /\ ContentsNext /\ UNCHANGED outletVars
     \/ part = "outlets" /\ OutletsNext /\ UNCHANGED contentsVars

\* The fairness of the parts, each while it runs.
KeepingSpec ==
  /\ KeepingInit /\ [][KeepingNext]_<<part, contentsVars, outletVars>>
  /\ WF_contentsVars(part = "contents" /\ CleanUp) /\ WF_contentsVars(part = "contents" /\ Tick)
  /\ WF_outletVars(part = "outlets" /\ Sends)
  /\ \A c \in Clients : WF_outletVars(part = "outlets" /\ addToMailQueue(c))
=============================================================================
