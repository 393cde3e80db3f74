------------------------------ MODULE QuotaSync ------------------------------
(***************************************************************************)
(* The quota synchronisation of src/lib/usage/providerLimits.ts beside the  *)
(* requests and health checks of TokenRefresh.  refreshAndUpdateCredentials *)
(* runs the whole executor.refreshCredentials inside serializeRefresh; the  *)
(* executors of codex, openai, claude and gitlab-duo call getAccessToken     *)
(* there, which queues its own POST in the same lane.                        *)
(***************************************************************************)
EXTENDS TokenRefresh

CONSTANT Syncs               \* on-demand quota synchronisations

VARIABLE sync                \* where each of them is, its account and snapshot

syncVars == <<vars, sync>>

SyncInit ==
    /\ Init
    /\ sync = [s \in Syncs |-> [stage |-> "idle", conn |-> CHOOSE c \in Connections : TRUE,
                                token |-> NoToken]]

(* needsRefresh, or force after a 401: the sync queues behind the lane.       *)
SyncCall(s, c) ==
    /\ sync[s].stage = "idle" /\ row[c].token # NoToken
    /\ sync' = [sync EXCEPT ![s] = [stage |-> "queued", conn |-> c, token |-> row[c].token]]
    /\ lane' = Append(lane, s)
    /\ UNCHANGED <<row, provider, rotated, job, request, sweep, lost>>

(* Its turn: the executor calls getAccessToken and waits for the result.      *)
SyncRun(s) ==
    LET c == sync[s].conn IN
    /\ sync[s].stage = "queued" /\ lane # <<>> /\ Head(lane) = s
    /\ sync' = [sync EXCEPT ![s].stage = "inside"]
    /\ GetAccessToken(c, sync[s].token, NoToken, Sweeper)
    /\ UNCHANGED <<row, provider, rotated, request, sweep, lost>>

(* The refresh it waits for ends, and it leaves the lane.  The code stores     *)
(* the result once, on leaving; that Finish stores it already makes no         *)
(* difference to who gets the lane.                                           *)
SyncFinish(s) ==
    LET c == sync[s].conn IN
    /\ sync[s].stage = "inside" /\ Finish(c)
    /\ sync' = [sync EXCEPT ![s].stage = "leaving",
                            ![s].token = IF job[c].result \in Tokens THEN job[c].result ELSE NoToken]

SyncLeave(s) ==
    LET c == sync[s].conn IN
    /\ sync[s].stage = "leaving"
    /\ lane' = Tail(lane)
    /\ row' = IF sync[s].token = NoToken THEN row
              ELSE [row EXCEPT ![c].token = sync[s].token, ![c].age = "fresh"]
    /\ sync' = [sync EXCEPT ![s].stage = "done"]
    /\ UNCHANGED <<provider, rotated, job, request, sweep, lost>>

SyncStep(s) == SyncRun(s) \/ SyncFinish(s) \/ SyncLeave(s)

Awaited(c) == \E s \in Syncs : sync[s].stage = "inside" /\ sync[s].conn = c

SyncNext ==
    \/ \E s \in Syncs, c \in Connections : SyncCall(s, c)
    \/ \E s \in Syncs : SyncStep(s)
    \/ /\ UNCHANGED sync
       /\ \/ \E r \in Requests : RequestStep(r)
          \/ \E c \in Connections :
              \/ Post(c) \/ Rotate(c) \/ Refuse(c) \/ NetworkError(c) \/ SettleGap(c)
              \/ Finish(c) /\ ~Awaited(c)
              \/ Sweep(c) \/ Age(c) \/ Forget(c) \/ Relogin(c)
    \/ Restart /\ sync' = [s \in Syncs |-> [sync[s] EXCEPT !.stage = "idle"]]

SyncFairness ==
    /\ \A s \in Syncs : WF_syncVars(SyncStep(s))
    /\ \A c \in Connections : WF_syncVars(RefreshStep(c) /\ UNCHANGED sync)
    /\ \A c \in Connections : WF_syncVars(Forget(c) /\ UNCHANGED sync)

SyncSpec == SyncInit /\ [][SyncNext]_syncVars /\ SyncFairness

-----------------------------------------------------------------------------
(* Stated by the repository, not kept by the code.                            *)

(* refreshSerializer.ts: the lane is always released, "so the queue keeps     *)
(* flowing even after a failed refresh".  Whoever waits in the lane gets its  *)
(* turn.                                                                      *)
QueueKeepsFlowing ==
    \A c \in Connections : job[c].stage = "queued" ~> job[c].stage # "queued"

=============================================================================
