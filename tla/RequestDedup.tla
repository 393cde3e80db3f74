----------------------------- MODULE RequestDedup -----------------------------
(***************************************************************************)
(* Identical requests share one upstream call: `deduplicate' of              *)
(* open-sse/services/requestDedup.ts, called by executeProviderRequest in    *)
(* open-sse/handlers/chatCore.ts, with the account fallback of               *)
(* src/sse/handlers/chat.ts around it.  Only requests that shouldDeduplicate *)
(* lets through are modelled: not streaming, temperature at most 0.1.        *)
(*                                                                           *)
(* A call is named by the request that leads it; a request leads one call at *)
(* a time.  Everything up to the await of `existing' or of fn() is one step, *)
(* and so is the settling of a call with its finally block.                  *)
(***************************************************************************)
EXTENDS Naturals, Sequences, FiniteSets, SequencesExt

CONSTANTS
    Requests,
    Accounts,      \* connections of the provider
    Prompt,        \* what computeRequestHash reads of the body of a request
    Rest,          \* the other fields the provider gets: stop, seed, n, ...
    MaxInflight    \* MAX_INFLIGHT

ASSUME DedupAssumption == MaxInflight \in Nat \ {0}

VARIABLES
    inflight,   \* the Map, in insertion order: the listed calls
    lapsed,     \* calls whose timer has fired
    evicted,    \* calls dropped for want of room
    request,    \* where each request is, on which account, in whose call
    unusable,   \* accounts a failure was booked on
    guilty      \* history: accounts on which a call was rejected

vars == <<inflight, lapsed, evicted, request, unusable, guilty>>

Phases == {"new", "leading", "following", "answered", "failed"}

Positions == [pc : Phases, on : SUBSET Accounts, call : SUBSET Requests]

TypeOK ==
    /\ inflight \in Seq(Requests) /\ Len(inflight) <= MaxInflight
    /\ lapsed \subseteq Requests /\ evicted \subseteq Requests
    /\ request \in [Requests -> Positions]
    /\ unusable \subseteq Accounts /\ guilty \subseteq Accounts

New == [pc |-> "new", on |-> {}, call |-> {}]

Init ==
    /\ inflight = <<>>
    /\ lapsed = {} /\ evicted = {}
    /\ request = [r \in Requests |-> New]
    /\ unusable = {} /\ guilty = {}

-----------------------------------------------------------------------------

Leading   == {r \in Requests : request[r].pc = "leading"}
Waiting   == {r \in Requests : request[r].pc = "following"}

\* Mutant: the hash reads nothing of the body but the model.
Hash_ModelOnly(r) == 0

\* computeRequestHash
Hash(r) == Prompt[r]

Listed(r) == {i \in DOMAIN inflight : Hash(inflight[i]) = Hash(r)}

\* The oldest call leaves a full map.
Room == IF Len(inflight) >= MaxInflight THEN Tail(inflight) ELSE inflight

Joins(r, a) ==
    /\ \E i \in Listed(r) :
        request' = [request EXCEPT ![r] =
                       [pc |-> "following", on |-> {a}, call |-> {inflight[i]}]]
    /\ UNCHANGED <<inflight, lapsed, evicted>>

Leads(r, a) ==
    /\ Listed(r) = {}
    /\ inflight' = Append(Room, r)
    /\ evicted' = evicted \cup (ToSet(inflight) \ ToSet(Room))
    /\ request' = [request EXCEPT ![r] = [pc |-> "leading", on |-> {a}, call |-> {r}]]
    /\ UNCHANGED lapsed

\* A request has selected an account and asks for its call.
Start(r) ==
    /\ request[r].pc = "new"
    /\ \E a \in Accounts \ unusable : Joins(r, a) \/ Leads(r, a)
    /\ UNCHANGED <<unusable, guilty>>

\* No account is left for a request.
GivesUp(r) ==
    /\ request[r].pc = "new" /\ unusable = Accounts
    /\ request' = [request EXCEPT ![r].pc = "failed"]
    /\ UNCHANGED <<inflight, lapsed, evicted, unusable, guilty>>

-----------------------------------------------------------------------------
(* The end of an entry and of a call.                                         *)

\* Mutant: the entry of this hash goes, whoever's it is.
Delisted_ByHash(r) ==
    IF Listed(r) = {} THEN inflight ELSE RemoveAt(inflight, CHOOSE i \in Listed(r) : TRUE)

\* if (inflight.get(hash) === sharedPromise) inflight.delete(hash)
Delisted(r) ==
    IF \E i \in DOMAIN inflight : inflight[i] = r
    THEN RemoveAt(inflight, CHOOSE i \in DOMAIN inflight : inflight[i] = r)
    ELSE inflight

\* The callback of setTimeout(config.timeoutMs): the call goes on unlisted.
TimerFires(r) ==
    /\ request[r].pc = "leading" /\ r \notin lapsed
    /\ lapsed' = lapsed \cup {r}
    /\ inflight' = Delisted(r)
    /\ UNCHANGED <<evicted, request, unusable, guilty>>

\* The requests that await the call of r.
Sharers(r) == {r} \cup {f \in Waiting : request[f].call = {r}}

\* Mutant: the entry is removed only when the call succeeds.
Settle_KeepsFailures(r, pc) ==
    /\ request' = [q \in Requests |->
                      IF q \in Sharers(r) THEN [New EXCEPT !.pc = pc] ELSE request[q]]
    /\ inflight' = IF pc = "answered" THEN Delisted(r) ELSE inflight
    /\ lapsed' = lapsed \ {r} /\ evicted' = evicted \ {r}

\* resolve or reject, and the finally block: the timer is cleared.
Settle(r, pc) ==
    /\ request' = [q \in Requests |->
                      IF q \in Sharers(r) THEN [New EXCEPT !.pc = pc] ELSE request[q]]
    /\ inflight' = Delisted(r)
    /\ lapsed' = lapsed \ {r} /\ evicted' = evicted \ {r}

\* The provider answers.
Answers(r) ==
    /\ request[r].pc = "leading"
    /\ Settle(r, "answered")
    /\ UNCHANGED <<unusable, guilty>>

\* The leader's client has gone (499), or the request fails in a way that
\* another account would not mend: the followers fail with the leader.
Throws(r) ==
    /\ request[r].pc = "leading"
    /\ Settle(r, "failed")
    /\ UNCHANGED <<unusable, guilty>>

\* Mutant: a failed account is selected again.
Rejects_Unbooked(r) ==
    /\ request[r].pc = "leading"
    /\ guilty' = guilty \cup request[r].on
    /\ Settle(r, "new")
    /\ UNCHANGED unusable

\* The provider rejects the account (401, 402, 403, 429) or the call breaks:
\* each request that shares the outcome books it on the account it had
\* selected, and selects again.
Rejects(r) ==
    /\ request[r].pc = "leading"
    /\ unusable' = unusable \cup UNION {request[q].on : q \in Sharers(r)}
    /\ guilty' = guilty \cup request[r].on
    /\ Settle(r, "new")

Done == /\ \A r \in Requests : request[r].pc \in {"answered", "failed"}
        /\ UNCHANGED vars

Next ==
    \/ \E r \in Requests : \/ Start(r) \/ GivesUp(r) \/ TimerFires(r)
                           \/ Answers(r) \/ Throws(r) \/ Rejects(r)
    \/ Done

Spec == Init /\ [][Next]_vars

(* Fairness.  A request that has selected goes on, and a call ends: the       *)
(* executor has deadlines for its start and its body.                         *)
FairSpec ==
    /\ Spec
    /\ \A r \in Requests : WF_vars(Start(r) \/ GivesUp(r))
    /\ \A r \in Requests : WF_vars(Answers(r) \/ Throws(r) \/ Rejects(r))

-----------------------------------------------------------------------------
(* Properties *)

\* Nobody joins a call that is over, or one of two calls for the same prompt:
\* each entry of the map is a running call, no prompt has two.
ListedIsRunning ==
    \A i, j \in DOMAIN inflight :
        /\ request[inflight[i]].pc = "leading"
        /\ Hash(inflight[i]) = Hash(inflight[j]) => i = j

\* requestDedup.ts:4, concurrent identical requests are deduplicated: of two
\* running calls for the same prompt one has outlived its timer or was evicted,
\* whatever happened to the entries of earlier calls.
OneCallPerPrompt ==
    \A r, s \in Leading :
        r # s /\ Hash(r) = Hash(s) => {r, s} \cap (lapsed \cup evicted) # {}

\* A follower waits for a call that runs: evictions, lapsed timers and later
\* calls for its prompt do not separate it from the promise it joined.
FollowersAreAttached ==
    \A f \in Waiting : \E r \in Leading : request[f].call = {r} /\ Prompt[r] = Prompt[f]

\* Every request ends, however often its calls are rejected.
RequestsEnd == \A r \in Requests : <>(request[r].pc \in {"answered", "failed"})

-----------------------------------------------------------------------------
(* Stated by the repository, not kept by the code *)

\* docs/architecture/RESILIENCE_GUIDE.md:57, "skip one bad key while other
\* connections for the same provider keep serving": a failure is booked only on
\* accounts whose own call was rejected.
OthersKeepServing == unusable \subseteq guilty

\* requestDedup.ts:126, only stream, user and metadata are left out of the hash
\* ("don't affect LLM output"): a follower asked for what its leader asks.
OnlyIdenticalShare ==
    \A f \in Waiting : \A r \in request[f].call : Rest[f] = Rest[r]
=============================================================================
