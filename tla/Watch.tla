------------------------------- MODULE Watch -------------------------------
(***************************************************************************)
(* The watch loop: how a change of the working tree comes to be indexed.   *)
(*                                                                         *)
(* `ok watch` builds a full index, registers a file watcher and then waits *)
(* on the watcher's channel.  An event of a path discovery would see makes *)
(* the path pending; when no event has come for the debounce, the pending  *)
(* paths are taken and the repository is indexed again under the write     *)
(* lock.  An edit of ok.toml changes which paths discovery sees, and so    *)
(* which events count.  Meanwhile the tree and ok.toml go on changing, an  *)
(* `ok index` in another process may run, a run may fail at any step, and  *)
(* the operating system may lose events.                                   *)
(***************************************************************************)
EXTENDS Naturals, Sequences

CONSTANTS
    Paths,      \* the source files of the repository
    Built,      \* those in a `build` directory, which discovery may cut
    Rules,      \* the rules ok.toml may hold
    MaxEdits,   \* bound on the edits of the tree and of ok.toml together
    MaxQueue,   \* bound on the events in the channel
    Absent,     \* the index holds nothing of the path
    Unread      \* the run has not read the path yet

\* "keep" indexes Built (`keep_dirs` lists it), "prune" cuts the directory from
\* the walk, "deny" walks it and indexes none of it; a broken file does not load.
ASSUME WatchAssumption ==
    /\ Built \subseteq Paths
    /\ Rules \subseteq {"keep", "prune", "deny", "broken"} /\ "keep" \in Rules
    /\ MaxEdits \in Nat /\ MaxQueue \in Nat \ {0}
    /\ Absent \notin Nat /\ Unread \notin Nat /\ Absent # Unread

Versions == 0 .. MaxEdits

VARIABLES
    tree,       \* tree[p]: the version of the file p
    rule,       \* what ok.toml says
    edits,      \* the edits made
    queue,      \* the watcher's channel: a path, "config", "ignored" or "error"
    at,         \* where watch_repo_with_debounce is; "off": no watcher runs
    pruner,     \* the rule the watcher filters events by
    pending,    \* pending_paths
    run,        \* run[w]: the index run of process w, see Runs
    index,      \* index[p]: the version of p the stored rows hold
    published,  \* the manifest describes them
    lost        \* the ways a change may have been lost since the watcher last began to read

world   == <<tree, rule, edits>>
loop    == <<at, pruner, pending>>
stored  == <<index, published>>
vars    == <<world, queue, loop, run, stored, lost>>

Processes == {"watch", "index"}

\* A run waits for the lock, reads the tree file by file under the rule it has
\* loaded, stages what it read and publishes: "full" with the manifest removed
\* at staging, "partial" under the previous one.
Steps == {"idle", "wait", "scan", "full", "partial"}
Runs  == [step : Steps, rule : Rules, scan : [Paths -> Versions \cup {Absent, Unread}]]

Idle == [step |-> "idle", rule |-> "keep", scan |-> [p \in Paths |-> Unread]]

\* What discovery finds of p under a rule.
Sees(r, p)     == ~(p \in Built /\ r \in {"prune", "deny"})
Visible(r)     == [p \in Paths |-> IF Sees(r, p) THEN tree[p] ELSE Absent]
\* Whether an event of p counts: pruned directories are ignored, denied ones are not.
is_relevant_path(r, p) == p = "config" \/ (p \in Paths /\ ~(p \in Built /\ r = "prune"))

\* Replaces LockFree in a mutant: the lock is taken for the writes alone.
LockFreeToScan == \A w \in Processes : run[w].step \notin {"full", "partial"}

LockFree       == \A w \in Processes : run[w].step \in {"idle", "wait"}
InFirstBuild   == at \in {"first", "register"}

Init ==
    /\ tree = [p \in Paths |-> 0]
    /\ rule \in Rules
    /\ edits = 0
    /\ queue = <<>>
    /\ at = "off"
    /\ pruner = "keep"
    /\ pending = {}
    /\ run = [w \in Processes |-> Idle]
    /\ index = [p \in Paths |-> Absent]
    /\ published = FALSE
    /\ lost = {}

-----------------------------------------------------------------------------
(***************************************************************************)
(* The user and the operating system.                                      *)
(***************************************************************************)

\* The watcher is registered for the whole of its loop.
Delivered(event) == at \in {"pruner", "loop"} /\ Len(queue) < MaxQueue
                    /\ queue' = Append(queue, event)

\* A change the watcher gets no event of: before it is registered (`early`: its first run
\* may have read the old state), or when the system's event queue overflows (it then
\* sends a rescan event, which no arm of the loop acts on).  An edit of ok.toml lost
\* that way leaves the pruner behind for good.
Unnoticed(early, overflow) ==
    /\ queue' = queue
    /\ lost' = CASE at = "off" -> lost
                 [] InFirstBuild -> lost \cup early
                 [] OTHER -> lost \cup {overflow}

Early(p) ==
    IF run["watch"].scan[p] # Unread \/ at = "register" THEN {"unregistered"} ELSE {}
EarlyConfig ==
    IF run["watch"].step \notin {"idle", "wait"} \/ at = "register"
    THEN {"unregistered"} ELSE {}

Edit(p) ==
    /\ edits < MaxEdits
    /\ edits' = edits + 1
    /\ tree' = [tree EXCEPT ![p] = @ + 1]
    /\ \/ Delivered(p) /\ UNCHANGED lost
       \/ Unnoticed(Early(p), "overflow")
    /\ UNCHANGED <<rule, loop, run, stored>>

EditConfig(r) ==
    /\ edits < MaxEdits
    /\ r # rule
    /\ edits' = edits + 1
    /\ rule' = r
    /\ \/ Delivered("config") /\ UNCHANGED lost
       \/ Unnoticed(EarlyConfig, "config_overflow")
    /\ UNCHANGED <<tree, loop, run, stored>>

\* A write under .ok or .git or in a directory nothing watches for.
IgnoredChange ==
    /\ Delivered("ignored")
    /\ UNCHANGED <<world, loop, run, stored, lost>>

WatcherError ==
    /\ Delivered("error")
    /\ UNCHANGED <<world, loop, run, stored, lost>>

-----------------------------------------------------------------------------
(***************************************************************************)
(* An index run of process w, from the lock to the manifest.               *)
(***************************************************************************)

\* A watch run that ends: the first one leads to the registration or ends the
\* process, a later one returns to the loop.
Ended(w, ok) ==
    /\ run' = [run EXCEPT ![w] = Idle]
    /\ at' = IF w = "watch" /\ at = "first" THEN IF ok THEN "register" ELSE "off" ELSE at
    /\ UNCHANGED <<pruner, pending>>

\* A failed run lost what its events reported; a failed `ok index`, the index
\* it had begun to replace.
Failure(w) ==
    lost' = IF w = "watch" THEN lost \cup {"failed_run"}
            ELSE IF run[w].step \in {"full", "partial"} THEN lost \cup {"ok_index"}
            ELSE lost

\* `ok index` loads ok.toml, then waits for the lock.
StartIndex ==
    /\ run["index"].step = "idle"
    /\ rule # "broken"
    /\ run' = [run EXCEPT !["index"] = [Idle EXCEPT !.step = "wait", !.rule = rule]]
    /\ UNCHANGED <<world, queue, loop, stored, lost>>

\* A watch run loads ok.toml under the lock, and reads the tree after that.
Acquire(w) ==
    /\ run[w].step = "wait"
    /\ LockFree
    /\ w = "watch" => rule # "broken"
    /\ run' = [run EXCEPT ![w].step = "scan", ![w].rule = IF w = "watch" THEN rule ELSE @]
    /\ lost' = IF w = "watch" THEN lost \cap {"config_overflow"} ELSE lost
    /\ UNCHANGED <<world, queue, loop, stored>>

\* Replaces GiveUp in a mutant: the wait for the lock has no limit.
WaitForever(w) ==
    /\ run[w].step = "wait" /\ w = "watch" /\ rule = "broken"
    /\ Failure(w) /\ Ended(w, FALSE)
    /\ UNCHANGED <<world, queue, stored>>

\* The lock was not free within the wait, or ok.toml does not load.
GiveUp(w) ==
    /\ run[w].step = "wait"
    /\ ~LockFree \/ (w = "watch" /\ rule = "broken")
    /\ Failure(w)
    /\ Ended(w, FALSE)
    /\ UNCHANGED <<world, queue, stored>>

Read(w, p) ==
    /\ run[w].step = "scan"
    /\ run[w].scan[p] = Unread
    /\ run' = [run EXCEPT ![w].scan[p] = Visible(run[w].rule)[p]]
    /\ UNCHANGED <<world, queue, loop, stored, lost>>

\* An event's run updates a published index in place; one that finds nothing
\* changed stages nothing.  Every other run replaces the rows and withdraws the
\* manifest.  A run under a rule that is no longer ok.toml's is one way to be stale.
Stage(w) ==
    /\ run[w].step = "scan"
    /\ \A p \in Paths : run[w].scan[p] # Unread
    /\ LET partial == w = "watch" /\ at = "loop" /\ published IN
       /\ run' = [run EXCEPT ![w].step = IF partial THEN "partial" ELSE "full"]
       /\ published' = partial
    /\ index' = run[w].scan
    /\ lost' = IF w = "index" /\ run[w].rule # rule THEN lost \cup {"ok_index"} ELSE lost
    /\ UNCHANGED <<world, queue, loop>>

Publish(w) ==
    /\ run[w].step \in {"full", "partial"}
    /\ published' = TRUE
    /\ Ended(w, TRUE)
    /\ UNCHANGED <<world, queue, index, lost>>

\* Any call of the run fails.  After a partial update is committed, the manifest
\* it would replace is withdrawn, or that fails too.
Fail(w) ==
    /\ run[w].step \in {"scan", "full", "partial"}
    /\ \/ published' = published
       \/ run[w].step = "partial" /\ published' = FALSE
    /\ Failure(w)
    /\ Ended(w, FALSE)
    /\ UNCHANGED <<world, queue, index>>

KillIndex ==
    /\ run["index"].step # "idle"
    /\ Failure("index")
    /\ Ended("index", FALSE)
    /\ UNCHANGED <<world, queue, stored>>

-----------------------------------------------------------------------------
(***************************************************************************)
(* The watch loop.                                                         *)
(***************************************************************************)

Waiting == run["watch"].step = "idle"

Start ==
    /\ at = "off"
    /\ at' = "first"
    /\ run' = [run EXCEPT !["watch"] = [Idle EXCEPT !.step = "wait"]]
    /\ UNCHANGED <<world, queue, pruner, pending, stored, lost>>

Register ==
    /\ at = "register"
    /\ at' = "pruner"
    /\ UNCHANGED <<world, queue, pruner, pending, run, stored, lost>>

\* The watcher process ends, by an error it returns or because it is killed, and
\* its channel with it.
Off ==
    /\ at' = "off"
    /\ queue' = <<>>
    /\ pruner' = "keep"
    /\ pending' = {}
    /\ run' = [run EXCEPT !["watch"] = Idle]
    /\ lost' = {}

LoadPruner ==
    /\ at = "pruner"
    /\ IF rule = "broken"
       THEN Off
       ELSE /\ at' = "loop" /\ pruner' = rule
            /\ UNCHANGED <<queue, pending, run, lost>>
    /\ UNCHANGED <<world, stored>>

\* Replace PrunerAfter in mutants: the filter is never reloaded; it is replaced by
\* what did not load.
PrunerOfTheStart(event) == pruner
PrunerUnchecked(event) == IF event = "config" THEN rule ELSE pruner

\* The rule that filters an event: an edit of ok.toml is read first, and one
\* that does not load leaves the last rule in place.
PrunerAfter(event) ==
    IF event = "config" /\ rule # "broken" THEN rule ELSE pruner

Receive ==
    /\ at = "loop" /\ Waiting /\ queue # <<>>
    /\ LET event == Head(queue) IN
       IF event = "error"
       THEN Off
       ELSE /\ pruner' = PrunerAfter(event)
            /\ pending' = IF is_relevant_path(pruner', event) THEN pending \cup {event} ELSE pending
            /\ queue' = Tail(queue)
            /\ UNCHANGED <<at, run, lost>>
    /\ UNCHANGED <<world, stored>>

\* No event for the debounce, and paths are pending.
Timeout ==
    /\ at = "loop" /\ Waiting /\ queue = <<>>
    /\ pending # {}
    /\ pending' = {}
    /\ run' = [run EXCEPT !["watch"] = [Idle EXCEPT !.step = "wait"]]
    /\ UNCHANGED <<world, queue, at, pruner, stored, lost>>

KillWatch ==
    /\ at # "off"
    /\ Off
    /\ UNCHANGED <<world, stored>>

-----------------------------------------------------------------------------
RunStep(w) ==
    \/ Acquire(w) \/ GiveUp(w)
    \/ \E p \in Paths : Read(w, p)
    \/ Stage(w) \/ Publish(w)

Next ==
    \/ \E p \in Paths : Edit(p)
    \/ \E r \in Rules : EditConfig(r)
    \/ IgnoredChange \/ WatcherError
    \/ StartIndex \/ KillIndex
    \/ \E w \in Processes : RunStep(w) \/ Fail(w)
    \/ Start \/ Register \/ LoadPruner \/ Receive \/ Timeout \/ KillWatch

Spec == Init /\ [][Next]_vars

\* Both processes go on with what they have begun; nobody has to start or edit
\* anything, and runs may fail.  Timeout needs strong fairness: it is possible
\* only when the channel has been empty for the debounce.
Fairness ==
    /\ \A w \in Processes : WF_vars(RunStep(w))
    /\ WF_vars(Register \/ LoadPruner \/ Receive)
    /\ SF_vars(Timeout)

FairSpec == Spec /\ Fairness

-----------------------------------------------------------------------------
(***************************************************************************)
(* What the loop promises.                                                 *)
(***************************************************************************)

\* The types of the variables; a process scans only with the lock.
TypeOK ==
    /\ tree \in [Paths -> Versions] /\ rule \in Rules /\ edits \in 0 .. MaxEdits
    /\ queue \in Seq(Paths \cup {"config", "ignored", "error"}) /\ Len(queue) <= MaxQueue
    /\ at \in {"off", "first", "register", "pruner", "loop"}
    /\ pruner \in Rules \ {"broken"}
    /\ pending \subseteq Paths \cup {"config"}
    /\ run \in [Processes -> Runs]
    /\ index \in [Paths -> Versions \cup {Absent}]
    /\ published \in BOOLEAN
    /\ lost \subseteq {"unregistered", "overflow", "config_overflow",
                       "failed_run", "ok_index"}

Fresh == published /\ index = Visible(rule)

\* The watcher waits for events over an index that is not the tree's.
Behind == at = "loop" /\ Waiting /\ rule # "broken" /\ ~Fresh

Queued == \E i \in 1 .. Len(queue) : is_relevant_path(pruner, queue[i])

\* A change is never forgotten: a waiting watcher whose index differs from what
\* discovery would find now has an event of it still to read, a path pending, or
\* another run in the middle of replacing the index; or the change was lost in one
\* of the five ways the code leaves open.  In particular the filter of events is
\* never out of date with ok.toml, the pending paths are not dropped by a run that
\* read the tree before them, and a concurrent `ok index` does not undo a run.
NoChangeForgotten ==
    Behind => Queued \/ pending # {} \/ run["index"].step = "full" \/ lost # {}

\* The stored version of a file never goes back: a run reads the tree only after
\* the lock is its own, so it cannot overwrite what a later reader stored.
StoredNotOlder ==
    [][\A p \in Paths : Absent \in {index[p], index'[p]} \/ index'[p] >= index[p]]_vars

\* If the channel is empty again and again (the debounce gets to expire), an
\* index that is behind is brought up to date, unless the change was lost or the
\* watcher ends.
Settles ==
    []<>(at = "loop" => queue = <<>>) => (Behind ~> (at = "off" \/ lost # {} \/ Fresh))

\* docs/security-model.md:148: a path excluded after it was indexed "loses its rows
\* at the next `ok index` or `ok watch` run".  Once it has lost them it does not
\* get them back while it is excluded.  (With one edit, so that the index without
\* the path is one the exclusion made.)
ExcludedStaysOut ==
    [][\A p \in Paths :
         published /\ index[p] = Absent /\ ~Sees(rule, p) => index'[p] = Absent]_vars

=============================================================================
