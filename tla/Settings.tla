------------------------------- MODULE Settings -------------------------------
(***************************************************************************)
(* The configuration of a Runtime and the requests that change it          *)
(* (service.py: settings_update, provider_add, provider_remove,            *)
(* provider_refresh; config.py).  The file is read and replaced under one  *)
(* lock; what a request learns before it has the lock (the models there    *)
(* are, the models a provider offers) is only protected by the revision it *)
(* shows, and a Provider's request need not show one.  A request is cut    *)
(* off when its client goes away; a write that has begun is finished in    *)
(* its thread all the same.                                                *)
(*                                                                         *)
(* A configuration: provider -> who added it (None: it is not there),      *)
(* provider -> which of its incarnations its models were asked for, the    *)
(* default model's provider, and who wrote the cloud endpoint last, which  *)
(* stands for the settings that are not about a provider.                  *)
(***************************************************************************)
EXTENDS FiniteSets, Naturals

CONSTANTS
    Providers,      \* custom providers
    Updates,        \* settings.update requests
    Adds, Removes, Refreshes,   \* provider.add, provider.remove, provider.refresh
    Groups,         \* the sets of them that are made together
    None

Requests == Updates \cup Adds \cup Removes \cup Refreshes
Initially == "initially"
Authors == Requests \cup {Initially}
Cloud == "cloud"    \* the setting that is not about a provider

VARIABLES
    disk,       \* config.json
    memory,     \* RuntimeService.config
    account,    \* the author of the endpoint the account service works with
    revision,
    announced,  \* the revision of the last settings.updated event
    lock,       \* who holds _settings_lock
    pc,
    known,      \* request -> the revision it shows, None if it shows none
    about,      \* request -> the provider or the field it is about
    found,      \* request -> what it learned before it had the lock
    (* History, read by no action. *)
    stale,      \* requests whose client saw what is overwritten by now
    saver       \* whose write was last

client == <<known, about>>
ghosts == <<stale, saver>>
settingsVars == <<disk, memory, account, revision, announced, lock, pc, client, found, ghosts>>

Configs ==
    [added: [Providers -> Authors \cup {None}], models: [Providers -> Authors \cup {None}],
     default: Providers \cup {None}, cloud: Authors]

There(config) == {p \in Providers : config.added[p] # None}
\* "untold": the file was written, and then the request was cut off or failed.
Ended == {"ok", "refused", "cut", "untold"}

TypeOK ==
    /\ {disk, memory} \subseteq Configs
    /\ account \in Authors
    /\ revision \in 1..Cardinality(Requests) + 1 /\ announced \in 1..revision
    /\ lock \in Requests \cup {None}
    /\ pc \in [Requests -> {"idle", "held", "asking", "learned", "saving", "saved", "configuring",
                            "changed", "cutSaving", "cutSaved"} \cup Ended]
    /\ \A r \in Requests :
           /\ known[r] \in 1..revision \cup {None}
           /\ about[r] \in Providers \cup {Cloud, None}
           /\ pc[r] \in {"saving", "saved", "configuring", "cutSaving", "cutSaved"} <=> lock = r

Init ==
    /\ \E there \in SUBSET Providers :
           \E default \in there \cup {None} :
               disk = [added |-> [p \in Providers |-> IF p \in there THEN Initially ELSE None],
                       models |-> [p \in Providers |-> IF p \in there THEN Initially ELSE None],
                       default |-> default, cloud |-> Initially]
    /\ memory = disk /\ account = Initially
    /\ revision = 1 /\ announced = 1 /\ lock = None
    /\ pc = [r \in Requests |-> "idle"]
    /\ known = [r \in Requests |-> None] /\ about = [r \in Requests |-> None]
    /\ found = [r \in Requests |-> {}]
    /\ stale = {} /\ saver = None

Goes(r, where) == pc' = [pc EXCEPT ![r] = where]
From(r, here, there) == pc[r] = here /\ Goes(r, there)

shared == <<disk, memory, account, revision, announced>>

----------------------------------------------------------------------------
\* A client looks at the settings, and decides what it wants and whether it
\* shows the revision.
Look(r) ==
    /\ \E group \in Groups : {r} \cup {q \in Requests : pc[q] # "idle"} \subseteq group
    /\ From(r, "idle", "held")
    /\ \E rev \in IF r \in Updates THEN {revision} ELSE {revision, None} :
           known' = [known EXCEPT ![r] = rev]
    /\ \E it \in IF r \in Updates THEN Providers \cup {Cloud} ELSE Providers :
           about' = [about EXCEPT ![r] = it]
    /\ UNCHANGED <<shared, lock, found, ghosts>>

----------------------------------------------------------------------------
(* What is learned without the lock.                                       *)

\* settings.update asks the providers of this configuration for their models,
\* provider.refresh the provider, provider.add the one to be added.
Ask(r) ==
    /\ r \notin Removes
    /\ IF r \in Refreshes /\ about[r] \notin There(memory)
       THEN From(r, "held", "refused") /\ UNCHANGED found
       ELSE /\ From(r, "held", "asking")
            /\ found' = [found EXCEPT ![r] =
                   IF r \in Updates THEN There(memory)
                   ELSE IF r \in Refreshes THEN {memory.added[about[r]]} ELSE {}]
    /\ UNCHANGED <<shared, lock, client, ghosts>>

\* A provider may not answer; the default model passes for one that exists.
Learn(r) ==
    /\ \/ /\ From(r, "asking", "learned")
          /\ IF r \in Updates
             THEN \E answer \in SUBSET found[r] :
                      found' = [found EXCEPT ![r] = answer \cup ({memory.default} \ {None})]
             ELSE UNCHANGED found
       \/ From(r, "asking", "refused") /\ r \notin Updates /\ UNCHANGED found
    /\ UNCHANGED <<shared, lock, client, ghosts>>

----------------------------------------------------------------------------
(* Under the lock: the next configuration is made from the file's.         *)

\* Slip: a Provider's request that shows a revision is not held to it.
CurrentForUpdates(r) == r \notin Updates \/ known[r] = revision

Current(r) == known[r] \in {revision, None}

\* _apply_settings_patch
UpdateOf(r) ==
    IF about[r] = Cloud THEN [disk EXCEPT !.cloud = r]
    ELSE [disk EXCEPT !.default = about[r]]

AddOf(r) == [disk EXCEPT !.added[about[r]] = r, !.models[about[r]] = r]

\* Slip: the default model stays when its provider goes.
RemoveProviderOnly(r) == [disk EXCEPT !.added[about[r]] = None, !.models[about[r]] = None]

RemoveOf(r) ==
    [disk EXCEPT !.added[about[r]] = None, !.models[about[r]] = None,
                 !.default = IF memory.default = about[r] THEN None ELSE @]

\* The models of the provider that was asked become those of its namesake.  The
\* default model stays, or is replaced by another of them, or none is left.
RefreshOf(r) ==
    {[disk EXCEPT !.models[about[r]] = CHOOSE i \in found[r] : TRUE, !.default = default] :
        default \in IF disk.default = about[r] THEN {about[r], None} ELSE {disk.default}}

Proposals(r) ==
    IF r \in Updates THEN {UpdateOf(r)}
    ELSE IF r \in Adds THEN {AddOf(r)}
    ELSE IF r \in Removes THEN {RemoveOf(r)} ELSE RefreshOf(r)

\* Whether the request applies: to the models learned, to this configuration,
\* to the file (there a KeyError tells).
Applies(r) ==
    CASE r \in Updates -> about[r] \in found[r] \cup {Cloud}
      [] r \in Adds -> about[r] \notin There(memory)
      [] r \in Removes -> about[r] \in There(memory) \cap There(disk)
      [] r \in Refreshes -> about[r] \in There(disk)

\* Slip: a request that is refused keeps the lock.
LockAndKeep(r) ==
    /\ lock = None /\ pc[r] = IF r \in Removes THEN "held" ELSE "learned"
    /\ Goes(r, IF Current(r) /\ Applies(r) THEN "saving" ELSE "refused") /\ lock' = r
    /\ UNCHANGED <<shared, client, found, ghosts>>

Lock(r) ==
    /\ lock = None /\ pc[r] = IF r \in Removes THEN "held" ELSE "learned"
    /\ IF Current(r) /\ Applies(r)
       THEN lock' = r /\ Goes(r, "saving")
       ELSE Goes(r, "refused") /\ UNCHANGED lock
    /\ UNCHANGED <<shared, client, found, ghosts>>

\* save_config in its thread: a temporary file replaces the old one, or fails.
Save(r) ==
    /\ From(r, "saving", "saved") \/ From(r, "cutSaving", "cutSaved")
    /\ disk' \in Proposals(r)
    /\ saver' = r /\ stale' = {q \in Requests : pc[q] \in {"held", "asking", "learned"}}
    /\ UNCHANGED <<memory, account, revision, announced, lock, client, found>>

SaveFails(r) ==
    /\ From(r, "saving", "refused") \/ From(r, "cutSaving", "cut")
    /\ lock' = None
    /\ UNCHANGED <<shared, client, found, ghosts>>

\* Slip: the revision stays as it is.
ChangedAsBefore(r) == UNCHANGED revision /\ lock' = None /\ Goes(r, "changed")

Changed(r) == revision' = revision + 1 /\ lock' = None /\ Goes(r, "changed")

\* Slip: the file is not read again.
ReloadLater(r) == UNCHANGED memory

\* load_config
Reload(r) == memory' = disk

\* The file is read again; a new cloud endpoint goes to the account service,
\* which logs out of the old one and then waits for it to close.
Saved(r) ==
    /\ pc[r] = "saved" /\ Reload(r)
    /\ IF r \in Updates /\ memory.cloud # disk.cloud
       THEN \/ account' = disk.cloud /\ Goes(r, "configuring") /\ UNCHANGED <<revision, lock>>
            \/ lock' = None /\ Goes(r, "untold") /\ UNCHANGED <<account, revision>>
       ELSE Changed(r) /\ UNCHANGED account
    /\ UNCHANGED <<disk, announced, client, found, ghosts>>

Configured(r) ==
    /\ pc[r] = "configuring" /\ Changed(r)
    /\ UNCHANGED <<disk, memory, account, announced, client, found, ghosts>>

\* Slip: the event names the revision of its own change.
AnnounceOwn(r) ==
    /\ From(r, "changed", "ok")
    /\ announced' = IF known[r] = None THEN revision ELSE known[r] + 1
    /\ UNCHANGED <<disk, memory, account, revision, lock, client, found, ghosts>>

\* The events name the revision there is by then.
Announce(r) ==
    /\ From(r, "changed", "ok") /\ announced' = revision
    /\ UNCHANGED <<disk, memory, account, revision, lock, client, found, ghosts>>

----------------------------------------------------------------------------
\* The request is cancelled: at once, or when its thread is done.
Cut(r) ==
    /\ \/ pc[r] \in {"asking", "learned", "changed"} /\ Goes(r, "cut") /\ UNCHANGED lock
       \/ From(r, "saving", "cutSaving") /\ UNCHANGED lock
       \/ pc[r] \in {"saved", "configuring"} /\ Goes(r, "untold") /\ lock' = None
    /\ UNCHANGED <<shared, client, found, ghosts>>

CutSaved(r) ==
    /\ From(r, "cutSaved", "untold") /\ lock' = None
    /\ UNCHANGED <<shared, client, found, ghosts>>

Step(r) ==
    \/ Ask(r) \/ Learn(r) \/ Lock(r) \/ Save(r) \/ SaveFails(r) \/ Saved(r)
    \/ Configured(r) \/ Announce(r) \/ CutSaved(r)

Next == \E r \in Requests : Look(r) \/ Step(r) \/ Cut(r)

\* The loop and the worker threads go on.
Advance == \E r \in Requests : Step(r)
Fairness == WF_settingsVars(Advance)

Spec == Init /\ [][Next]_settingsVars /\ Fairness

----------------------------------------------------------------------------
\* A change that was written and then cut off, or failed to reach the account:
\* the revision does not tell of it.
Untold == \E r \in Requests : pc[r] = "untold"

\* What is written replaces what the client saw.
RevisionProves ==
    \A r \in Requests :
        pc[r] \in {"saving", "cutSaving"} /\ r \in stale => known[r] = None \/ Untold

\* The default model is one of a provider there is, although the models were
\* asked for before the lock was there.
DefaultExists == disk.default \in There(disk) \cup {None} \/ Untold

\* A provider has the models it offers, not those of a namesake that was there
\* before it, if the refresh has shown a revision.
ModelsMatch ==
    \A p \in Providers :
        \/ disk.models[p] = disk.added[p] \/ Untold
        \/ \E r \in Refreshes : about[r] = p /\ known[r] = None

\* The Runtime works with what is in the file, except when the last write was
\* cut off: that change takes effect with a later one.
MemoryFollows == lock = None => memory = disk \/ pc[saver] = "untold"

\* Clients have been told of the revision there is, in whatever order requests
\* that changed the settings got to their events.
LastIsAnnounced ==
    announced = revision \/ \E r \in Requests : pc[r] \in {"changed", "cut"}

\* The account service works with the endpoint there is.
AccountFollows == lock = None => account = memory.cloud \/ Untold

\* No request is under way.
AllOver == \A r \in Requests : pc[r] \in {"idle", "held"} \cup Ended

\* A client replaces what it saw, the default model exists, models are those of
\* the provider they are under, memory follows the file, and the last change is
\* announced and has reached the account.
SettingsSafe ==
    /\ TypeOK /\ RevisionProves /\ DefaultExists /\ ModelsMatch /\ MemoryFollows
    /\ LastIsAnnounced /\ AccountFollows
=============================================================================
