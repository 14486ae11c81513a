---------------------------- MODULE WatchProofs -----------------------------
(***************************************************************************)
(* Proofs about Watch, for any files, any rules of ok.toml, any number of  *)
(* edits and any length of the channel: no change is forgotten but in the  *)
(* five named ways, and no run stores what is older than the index.        *)
(***************************************************************************)
EXTENDS Watch, TLAPS

-----------------------------------------------------------------------------
(***************************************************************************)
(* The channel.                                                            *)
(***************************************************************************)

Events == Paths \cup {"config", "ignored", "error"}

\* What is sent comes last, behind all there was.
LEMMA Sent ==
    ASSUME NEW S, NEW q \in Seq(S), NEW e \in S
    PROVE  /\ Append(q, e) \in Seq(S) /\ Len(Append(q, e)) = Len(q) + 1
           /\ Len(q) + 1 \in 1 .. Len(Append(q, e)) /\ Append(q, e)[Len(q) + 1] = e
           /\ \A i \in 1 .. Len(q) : i \in 1 .. Len(Append(q, e)) /\ Append(q, e)[i] = q[i]
PROOF OBVIOUS

\* What is received was the first, and all but the first stays.
LEMMA Received ==
    ASSUME NEW S, NEW q \in Seq(S), q # <<>>
    PROVE  /\ Head(q) \in S /\ Head(q) = q[1] /\ Len(q) \in Nat /\ Len(q) > 0
           /\ Tail(q) \in Seq(S) /\ Len(Tail(q)) = Len(q) - 1
           /\ \A i \in 1 .. Len(q) :
                 i = 1 \/ (i - 1 \in 1 .. Len(Tail(q)) /\ Tail(q)[i - 1] = q[i])
PROOF OBVIOUS

-----------------------------------------------------------------------------
(***************************************************************************)
(* The invariant.                                                          *)
(***************************************************************************)

Holding(w) == run[w].step \in {"scan", "full", "partial"}
Staged(w)  == run[w].step \in {"full", "partial"}

\* What follows from where a process is: one run holds the lock, and a run has read
\* something only while it does.
Shape ==
    /\ \A w \in Processes :
         /\ run[w].rule # "broken"
         /\ ~Holding(w) => \A p \in Paths : run[w].scan[p] = Unread
         /\ Staged(w) => index = run[w].scan
         /\ \A v \in Processes : Holding(v) /\ Holding(w) => v = w
    /\ \A p \in Paths : tree[p] <= edits
    /\ run["index"].step # "partial"
    /\ run["watch"].step = "partial" => published
    /\ at \in {"off", "register", "pruner"} => Waiting
    /\ at = "first" => ~Waiting
    /\ at \in {"off", "first", "register"} => queue = <<>>
    /\ at # "loop" => pending = {}

\* The types of the variables, by who changes them.
Reasons ==
    {"unregistered", "overflow", "config_overflow", "failed_run", "ok_index"}

WorldOK   == tree \in [Paths -> Versions] /\ rule \in Rules /\ edits \in 0 .. MaxEdits
ChannelOK == queue \in Seq(Events) /\ Len(queue) <= MaxQueue
LoopOK    == /\ at \in {"off", "first", "register", "pruner", "loop"}
             /\ pruner \in Rules \ {"broken"} /\ pending \subseteq Paths \cup {"config"}
StoredOK  == index \in [Paths -> Versions \cup {Absent}] /\ published \in BOOLEAN

LEMMA TypeParts ==
    /\ TypeOK <=> /\ WorldOK /\ ChannelOK /\ LoopOK /\ run \in [Processes -> Runs]
                  /\ StoredOK /\ lost \subseteq Reasons
    /\ TypeOK' <=> /\ WorldOK' /\ ChannelOK' /\ LoopOK' /\ run' \in [Processes -> Runs]
                   /\ StoredOK' /\ lost' \subseteq Reasons
PROOF
<1>1. TypeOK <=> /\ WorldOK /\ ChannelOK /\ LoopOK /\ run \in [Processes -> Runs]
                 /\ StoredOK /\ lost \subseteq Reasons
  BY DEF TypeOK, WorldOK, ChannelOK, LoopOK, StoredOK, Events, Reasons
<1>2. TypeOK' <=> /\ WorldOK' /\ ChannelOK' /\ LoopOK' /\ run' \in [Processes -> Runs]
                  /\ StoredOK' /\ lost' \subseteq Reasons
  BY DEF TypeOK, WorldOK, ChannelOK, LoopOK, StoredOK, Events, Reasons
<1> QED BY <1>1, <1>2

LEMMA RunFields ==
    ASSUME TypeOK, NEW w \in Processes
    PROVE  /\ run[w] \in Runs /\ run[w].step \in Steps /\ run[w].rule \in Rules
           /\ run[w].scan \in [Paths -> Versions \cup {Absent, Unread}]
PROOF BY DEF TypeOK, Runs

LEMMA InitType == Init => TypeOK /\ Shape
PROOF
<1> SUFFICES ASSUME Init PROVE TypeOK /\ Shape
  OBVIOUS
<1>1. Idle \in Runs /\ 0 \in Versions
  BY WatchAssumption DEF Idle, Runs, Steps, Versions
<1>2. WorldOK /\ LoopOK /\ StoredOK /\ lost \subseteq Reasons
  BY <1>1, WatchAssumption DEF Init, WorldOK, LoopOK, StoredOK, Versions
<1>3. ChannelOK
  BY WatchAssumption DEF Init, ChannelOK
<1>4. run \in [Processes -> Runs]
  BY <1>1 DEF Init
<1>5. Shape
  BY WatchAssumption DEF Init, Shape, Idle, Holding, Staged, Waiting, Processes
<1> QED BY <1>2, <1>3, <1>4, <1>5, TypeParts

\* What a change of the world does to the channel and to `lost`.
LEMMA DeliveredType ==
    ASSUME ChannelOK, NEW e \in Events, Delivered(e)
    PROVE  ChannelOK' /\ at \in {"pruner", "loop"} /\ queue' = Append(queue, e)
PROOF
<1>1. queue \in Seq(Events) /\ Len(queue) \in Nat /\ MaxQueue \in Nat /\ Len(queue) < MaxQueue
  BY WatchAssumption DEF Delivered, ChannelOK
<1>2. Append(queue, e) \in Seq(Events) /\ Len(Append(queue, e)) = Len(queue) + 1
  BY <1>1, Sent
<1> QED BY <1>1, <1>2 DEF Delivered, ChannelOK

LEMMA UnnoticedType ==
    ASSUME lost \subseteq Reasons, NEW early \in SUBSET Reasons, NEW overflow \in Reasons,
           Unnoticed(early, overflow)
    PROVE  queue' = queue /\ lost' \subseteq Reasons
PROOF BY DEF Unnoticed, Reasons

LEMMA WorldType ==
    ASSUME TypeOK, Shape,
           (\E p \in Paths : Edit(p)) \/ (\E r \in Rules : EditConfig(r))
           \/ IgnoredChange \/ WatcherError
    PROVE  TypeOK' /\ Shape'
PROOF
<1> USE TypeParts
<1>1. UNCHANGED <<at, pruner, pending, run, index, published>>
  BY DEF Edit, EditConfig, IgnoredChange, WatcherError, loop, stored
<1>2. WorldOK'
  <2>1. CASE \E p \in Paths : Edit(p)
    <3>1. PICK p \in Paths : Edit(p)
      BY <2>1
    <3>2. tree[p] + 1 \in Versions
      BY <3>1, WatchAssumption DEF Edit, WorldOK, Versions, Shape
    <3> QED BY <3>1, <3>2, WatchAssumption DEF Edit, WorldOK
  <2>2. CASE \E r \in Rules : EditConfig(r)
    <3>1. PICK r \in Rules : EditConfig(r)
      BY <2>2
    <3>2. edits + 1 \in 0 .. MaxEdits
      BY <3>1, WatchAssumption DEF EditConfig, WorldOK
    <3>3. tree' = tree /\ rule' = r /\ edits' = edits + 1
      BY <3>1 DEF EditConfig
    <3> QED BY <3>2, <3>3 DEF WorldOK
  <2>3. CASE IgnoredChange \/ WatcherError
    BY <2>3 DEF IgnoredChange, WatcherError, WorldOK, world
  <2> QED BY <2>1, <2>2, <2>3
<1>3. /\ ChannelOK' /\ lost' \subseteq Reasons
      /\ queue' = queue \/ at \in {"pruner", "loop"}
  <2>1. \/ \E e \in Events : Delivered(e) /\ lost' = lost
        \/ \E early \in SUBSET Reasons, overflow \in Reasons : Unnoticed(early, overflow)
    <3>1. CASE \E p \in Paths : Edit(p)
      BY <3>1 DEF Edit, Early, Events, Reasons
    <3>2. CASE \E r \in Rules : EditConfig(r)
      BY <3>2 DEF EditConfig, EarlyConfig, Events, Reasons
    <3>3. CASE IgnoredChange \/ WatcherError
      BY <3>3 DEF IgnoredChange, WatcherError, Events
    <3> QED BY <3>1, <3>2, <3>3
  <2>2. CASE \E e \in Events : Delivered(e) /\ lost' = lost
    BY <2>2, DeliveredType
  <2>3. CASE \E early \in SUBSET Reasons, overflow \in Reasons : Unnoticed(early, overflow)
    <3>1. PICK early \in SUBSET Reasons, overflow \in Reasons : Unnoticed(early, overflow)
      BY <2>3
    <3>2. queue' = queue /\ lost' \subseteq Reasons
      BY <3>1, UnnoticedType
    <3> QED BY <3>2 DEF ChannelOK
  <2> QED BY <2>1, <2>2, <2>3
<1>4. \A p \in Paths : tree'[p] <= edits'
  <2>1. CASE \E p \in Paths : Edit(p)
    BY <2>1, WatchAssumption DEF Edit, WorldOK, Shape, Versions
  <2>2. CASE (\E r \in Rules : EditConfig(r)) \/ IgnoredChange \/ WatcherError
    BY <2>2, WatchAssumption
       DEF EditConfig, IgnoredChange, WatcherError, world, WorldOK, Shape, Versions
  <2> QED BY <2>1, <2>2
<1>5. Shape'
  BY <1>1, <1>3, <1>4 DEF Shape, Holding, Staged, Waiting
<1> QED BY <1>1, <1>2, <1>3, <1>5 DEF LoopOK, StoredOK

LEMMA IdleRun ==
    /\ Idle \in Runs /\ Idle.step = "idle" /\ Idle.rule = "keep"
    /\ \A p \in Paths : Idle.scan[p] = Unread
PROOF BY WatchAssumption DEF Idle, Runs, Steps

\* A process that ends, or begins to wait, has read nothing; the other goes on.
LEMMA RunReplaced ==
    ASSUME TypeOK, Shape, NEW w \in Processes, NEW r \in Runs, run' = [run EXCEPT ![w] = r],
           r.step \in {"idle", "wait"}, r.rule # "broken", \A p \in Paths : r.scan[p] = Unread,
           index' = index
    PROVE  /\ run' \in [Processes -> Runs]
           /\ run'[w] = r /\ \A v \in Processes : v # w => run'[v] = run[v]
           /\ \A v \in Processes :
                /\ run'[v].rule # "broken"
                /\ ~Holding(v)' => \A p \in Paths : run'[v].scan[p] = Unread
                /\ Staged(v)' => index' = run'[v].scan
                /\ \A u \in Processes : Holding(u)' /\ Holding(v)' => u = v
PROOF
<1>1. run \in [Processes -> Runs]
  BY TypeParts
<1>2. run' \in [Processes -> Runs] /\ run'[w] = r /\ \A v \in Processes : v # w => run'[v] = run[v]
  BY <1>1
<1>3. ASSUME NEW v \in Processes
      PROVE  /\ run'[v].rule # "broken"
             /\ ~Holding(v)' => \A p \in Paths : run'[v].scan[p] = Unread
             /\ Staged(v)' => index' = run'[v].scan
  BY <1>2 DEF Shape, Holding, Staged
<1>4. ASSUME NEW v \in Processes, NEW u \in Processes, Holding(u)', Holding(v)'
      PROVE  u = v
  BY <1>2, <1>4 DEF Shape, Holding
<1> QED BY <1>2, <1>3, <1>4

LEMMA LoopType ==
    ASSUME TypeOK, Shape, Start \/ Register \/ LoadPruner \/ Receive \/ Timeout \/ KillWatch
    PROVE  TypeOK' /\ Shape'
PROOF
<1> USE TypeParts
<1>1. ASSUME Off, UNCHANGED <<world, stored>> PROVE TypeOK' /\ Shape'
  <2>1. "watch" \in Processes /\ "index" \in Processes
    BY DEF Processes
  <2>2. WorldOK' /\ StoredOK' /\ index' = index /\ \A p \in Paths : tree'[p] <= edits'
    BY <1>1 DEF WorldOK, StoredOK, world, stored, Shape
  <2>3. LoopOK' /\ ChannelOK' /\ lost' \subseteq Reasons
    BY <1>1, WatchAssumption DEF Off, LoopOK, ChannelOK
  <2>4. run' = [run EXCEPT !["watch"] = Idle] /\ at' = "off" /\ queue' = <<>> /\ pending' = {}
    BY <1>1 DEF Off
  <2>5. /\ run' \in [Processes -> Runs] /\ run'["watch"] = Idle /\ run'["index"] = run["index"]
        /\ \A v \in Processes :
             /\ run'[v].rule # "broken"
             /\ ~Holding(v)' => \A p \in Paths : run'[v].scan[p] = Unread
             /\ Staged(v)' => index' = run'[v].scan
             /\ \A u \in Processes : Holding(u)' /\ Holding(v)' => u = v
    BY <2>1, <2>2, <2>4, IdleRun, RunReplaced
  <2>6. Shape'
    BY <2>2, <2>4, <2>5, IdleRun DEF Shape, Waiting
  <2> QED BY <2>2, <2>3, <2>5, <2>6
<1>2. ASSUME NEW r \in Runs, r = [Idle EXCEPT !.step = "wait"],
             run' = [run EXCEPT !["watch"] = r],
             at' \in {"first", "loop"}, at' = "first" => at = "off", at' = "loop" => at = "loop",
             pending' \in {pending, {}}, UNCHANGED <<world, queue, pruner, stored, lost>>
      PROVE  TypeOK' /\ Shape'
  <2>1. "watch" \in Processes /\ "index" \in Processes
    BY DEF Processes
  <2>2. WorldOK' /\ StoredOK' /\ index' = index /\ \A p \in Paths : tree'[p] <= edits'
    BY <1>2 DEF WorldOK, StoredOK, world, stored, Shape
  <2>3. LoopOK' /\ ChannelOK' /\ lost' \subseteq Reasons
    BY <1>2 DEF LoopOK, ChannelOK
  <2>4. r.step = "wait" /\ r.rule = "keep" /\ \A p \in Paths : r.scan[p] = Unread
    BY <1>2, IdleRun DEF Idle
  <2>5. /\ run' \in [Processes -> Runs] /\ run'["watch"] = r /\ run'["index"] = run["index"]
        /\ \A v \in Processes :
             /\ run'[v].rule # "broken"
             /\ ~Holding(v)' => \A p \in Paths : run'[v].scan[p] = Unread
             /\ Staged(v)' => index' = run'[v].scan
             /\ \A u \in Processes : Holding(u)' /\ Holding(v)' => u = v
    BY <1>2, <2>1, <2>2, <2>4, RunReplaced
  <2>6. Shape'
    BY <1>2, <2>2, <2>4, <2>5 DEF Shape, Waiting
  <2> QED BY <2>2, <2>3, <2>5, <2>6
<1>3. [Idle EXCEPT !.step = "wait"] \in Runs
  BY WatchAssumption DEF Idle, Runs, Steps
<1>4. CASE Start
  BY <1>2, <1>3, <1>4 DEF Start
<1>5. CASE Timeout
  BY <1>2, <1>3, <1>5 DEF Timeout
<1>6. CASE KillWatch
  BY <1>1, <1>6 DEF KillWatch
<1>7. CASE Register
  <2>1. /\ at = "register" /\ at' = "pruner"
        /\ UNCHANGED <<tree, rule, edits, queue, pruner, pending, run, index, published, lost>>
    BY <1>7 DEF Register, world, stored
  <2> QED BY <2>1 DEF WorldOK, ChannelOK, LoopOK, StoredOK, Shape, Waiting, Holding, Staged
<1>8. CASE LoadPruner
  <2>1. CASE rule = "broken"
    BY <1>1, <1>8, <2>1 DEF LoadPruner
  <2>2. CASE rule # "broken"
    <3>1. /\ at = "pruner" /\ at' = "loop" /\ pruner' = rule
          /\ UNCHANGED <<tree, rule, edits, queue, pending, run, index, published, lost>>
      BY <1>8, <2>2 DEF LoadPruner, world, stored
    <3> QED BY <2>2, <3>1 DEF WorldOK, ChannelOK, LoopOK, StoredOK, Shape, Waiting, Holding, Staged
  <2> QED BY <2>1, <2>2
<1>9. CASE Receive
  <2>1. CASE Head(queue) = "error"
    BY <1>1, <1>9, <2>1 DEF Receive
  <2>2. CASE Head(queue) # "error"
    <3>1. /\ at = "loop" /\ queue # <<>> /\ queue' = Tail(queue)
          /\ pruner' = PrunerAfter(Head(queue))
          /\ pending' = IF is_relevant_path(pruner', Head(queue)) THEN pending \cup {Head(queue)}
                        ELSE pending
          /\ UNCHANGED <<tree, rule, edits, at, run, index, published, lost>>
      BY <1>9, <2>2 DEF Receive, world, stored
    <3>2. ChannelOK'
      BY <3>1, Received, WatchAssumption DEF ChannelOK
    <3>3. LoopOK'
      BY <3>1 DEF LoopOK, WorldOK, PrunerAfter, is_relevant_path
    <3> QED BY <3>1, <3>2, <3>3 DEF WorldOK, StoredOK, Shape, Waiting, Holding, Staged
  <2> QED BY <2>1, <2>2
<1> QED BY <1>4, <1>5, <1>6, <1>7, <1>8, <1>9

\* A run that ends, whether it published or not, leaves the rest as it was.
LEMMA EndType ==
    ASSUME TypeOK, Shape, NEW w \in Processes, run' = [run EXCEPT ![w] = Idle],
           IF w = "watch" /\ at = "first" THEN at' \in {"register", "off"} ELSE at' = at,
           UNCHANGED <<tree, rule, edits, queue, pruner, pending, index>>,
           published' \in BOOLEAN, w = "index" /\ published => published',
           lost' \subseteq Reasons
    PROVE  TypeOK' /\ Shape'
PROOF
<1> USE TypeParts
<1>1. WorldOK' /\ ChannelOK' /\ LoopOK' /\ StoredOK' /\ \A p \in Paths : tree'[p] <= edits'
  BY DEF WorldOK, ChannelOK, LoopOK, StoredOK, Shape
<1>2. /\ run' \in [Processes -> Runs] /\ run'[w] = Idle
      /\ \A v \in Processes : v # w => run'[v] = run[v]
      /\ \A v \in Processes :
           /\ run'[v].rule # "broken"
           /\ ~Holding(v)' => \A p \in Paths : run'[v].scan[p] = Unread
           /\ Staged(v)' => index' = run'[v].scan
           /\ \A u \in Processes : Holding(u)' /\ Holding(v)' => u = v
  BY IdleRun, RunReplaced
<1>3. w = "watch" \/ (w = "index" /\ run'["watch"] = run["watch"])
  BY <1>2 DEF Processes
<1>4. /\ run'["index"].step # "partial"
      /\ run'["watch"].step = "partial" => published'
  BY <1>2, <1>3, IdleRun DEF Shape, Processes
<1>5. /\ at' \in {"off", "register", "pruner"} => Waiting'
      /\ at' = "first" => ~Waiting'
      /\ at' \in {"off", "first", "register"} => queue' = <<>>
      /\ at' # "loop" => pending' = {}
  BY <1>2, <1>3, IdleRun DEF Shape, Waiting
<1> QED BY <1>1, <1>2, <1>4, <1>5 DEF Shape

\* What Ended and Failure say, without their conditions.
LEMMA EndedFacts ==
    ASSUME NEW w \in Processes, Ended(w, TRUE) \/ Ended(w, FALSE)
    PROVE  /\ run' = [run EXCEPT ![w] = Idle]
           /\ IF w = "watch" /\ at = "first" THEN at' \in {"register", "off"} ELSE at' = at
           /\ UNCHANGED <<pruner, pending>>
PROOF BY DEF Ended

LEMMA FailureFacts ==
    ASSUME NEW w \in Processes, Failure(w)
    PROVE  /\ lost \subseteq lost'
           /\ lost' \subseteq lost \cup {"failed_run", "ok_index"}
           /\ w = "watch" => lost' # {}
           /\ Staged(w) => lost' # {}
PROOF BY DEF Failure, Staged

LEMMA EndingType ==
    ASSUME TypeOK, Shape, NEW w \in Processes,
           GiveUp(w) \/ Publish(w) \/ Fail(w) \/ (w = "index" /\ KillIndex)
    PROVE  TypeOK' /\ Shape'
PROOF
<1>1. Ended(w, TRUE) \/ Ended(w, FALSE)
  BY DEF GiveUp, Publish, Fail, KillIndex
<1>2. /\ run' = [run EXCEPT ![w] = Idle]
      /\ IF w = "watch" /\ at = "first" THEN at' \in {"register", "off"} ELSE at' = at
      /\ UNCHANGED <<pruner, pending>>
  BY <1>1, EndedFacts
<1>3. UNCHANGED <<tree, rule, edits, queue, index>>
  BY DEF GiveUp, Publish, Fail, KillIndex, world, stored
<1>4. published' \in BOOLEAN /\ (w = "index" /\ published => published')
  <2>1. published \in BOOLEAN /\ run["index"].step # "partial"
    BY DEF TypeOK, Shape
  <2>2. CASE GiveUp(w) \/ (w = "index" /\ KillIndex)
    BY <2>1, <2>2 DEF GiveUp, KillIndex, stored
  <2>3. CASE Publish(w)
    BY <2>3 DEF Publish
  <2>4. CASE Fail(w)
    <3>1. published' = published \/ (run[w].step = "partial" /\ published' = FALSE)
      BY <2>4 DEF Fail
    <3>2. CASE published' = published
      BY <2>1, <3>2
    <3>3. CASE run[w].step = "partial" /\ published' = FALSE
      BY <2>1, <3>3
    <3> QED BY <3>1, <3>2, <3>3
  <2> QED BY <2>2, <2>3, <2>4
<1>5. lost' \subseteq Reasons
  <2>1. Failure(w) \/ lost' = lost
    BY DEF GiveUp, Publish, Fail, KillIndex
  <2> QED BY <2>1, FailureFacts, TypeParts DEF Reasons
<1> QED BY <1>2, <1>3, <1>4, <1>5, EndType

\* A run that goes on with the lock: it alone holds it.
LEMMA HoldingType ==
    ASSUME TypeOK, Shape, NEW w \in Processes,
           Acquire(w) \/ (\E p \in Paths : Read(w, p)) \/ Stage(w)
    PROVE  /\ TypeOK' /\ Shape'
           /\ \A v \in Processes : v # w => run'[v] = run[v] /\ ~Holding(v)
PROOF
<1> USE TypeParts
<1>1. UNCHANGED <<tree, rule, edits, queue, at, pruner, pending>>
  BY DEF Acquire, Read, Stage, world, loop
<1>2. /\ run \in [Processes -> Runs] /\ run[w] \in Runs /\ run[w].rule # "broken"
      /\ \A v \in Processes : v # w => ~Holding(v)
  BY DEF Shape, Holding, Acquire, Read, Stage, LockFree
<1>3. /\ run' \in [Processes -> Runs] /\ \A v \in Processes : v # w => run'[v] = run[v]
      /\ Holding(w)' /\ run[w].step # "idle" /\ run'[w].rule # "broken"
      /\ run'[w].step = "partial" => w = "watch" /\ published'
      /\ Staged(w)' => index' = run'[w].scan
      /\ w = "index" => \/ published' = published
                        \/ run["watch"].step # "partial"
      /\ StoredOK' /\ lost' \subseteq Reasons
  <2>1. CASE Acquire(w)
    <3>1. /\ run' = [run EXCEPT ![w].step = "scan", ![w].rule = IF w = "watch" THEN rule ELSE @]
          /\ UNCHANGED <<index, published>> /\ lost' \subseteq lost
          /\ run[w].step = "wait" /\ (w = "watch" => rule # "broken")
      BY <2>1 DEF Acquire, stored
    <3>2. "scan" \in Steps /\ rule \in Rules
      BY DEF Steps, WorldOK
    <3>3. run'[w].step = "scan" /\ run'[w].rule # "broken"
      BY <1>2, <3>1 DEF Runs
    <3> QED BY <1>2, <3>1, <3>2, <3>3 DEF Runs, Holding, Staged, StoredOK
  <2>2. CASE \E p \in Paths : Read(w, p)
    <3>1. PICK p \in Paths : Read(w, p)
      BY <2>2
    <3>2. Visible(run[w].rule)[p] \in Versions \cup {Absent}
      BY <1>2 DEF Visible, WorldOK, Sees
    <3>3. /\ run' = [run EXCEPT ![w].scan[p] = Visible(run[w].rule)[p]]
          /\ UNCHANGED <<index, published, lost>> /\ run[w].step = "scan"
      BY <3>1 DEF Read, stored
    <3>4. run'[w].step = "scan" /\ run'[w].rule = run[w].rule
      BY <1>2, <3>3 DEF Runs
    <3> QED BY <1>2, <3>2, <3>3, <3>4 DEF Runs, Holding, Staged, StoredOK
  <2>3. CASE Stage(w)
    <3>1. PICK partial \in BOOLEAN :
             /\ partial = (w = "watch" /\ at = "loop" /\ published)
             /\ run' = [run EXCEPT ![w].step = IF partial THEN "partial" ELSE "full"]
             /\ published' = partial
      BY <2>3 DEF Stage
    <3>2. /\ index' = run[w].scan /\ run[w].step = "scan"
          /\ \A p \in Paths : run[w].scan[p] # Unread
          /\ lost' \subseteq lost \cup {"ok_index"}
      BY <2>3 DEF Stage
    <3>3. run[w].scan \in [Paths -> Versions \cup {Absent}]
      BY <1>2, <3>2 DEF Runs
    <3>4. /\ run'[w].scan = run[w].scan /\ run'[w].rule = run[w].rule
          /\ run'[w].step = IF partial THEN "partial" ELSE "full"
          /\ run' \in [Processes -> Runs] /\ \A v \in Processes : v # w => run'[v] = run[v]
      BY <1>2, <3>1 DEF Runs, Steps
    <3>5. w = "index" => run["watch"].step # "partial"
      BY <1>2 DEF Processes, Holding
    <3>6. (partial => w = "watch" /\ published') /\ published' \in BOOLEAN
      BY <3>1
    <3>7. StoredOK' /\ lost' \subseteq Reasons
      BY <3>2, <3>3, <3>6 DEF StoredOK, Reasons
    <3> QED BY <1>2, <3>2, <3>4, <3>5, <3>6, <3>7 DEF Holding, Staged
  <2> QED BY <2>1, <2>2, <2>3
<1>4. WorldOK' /\ ChannelOK' /\ LoopOK' /\ \A p \in Paths : tree'[p] <= edits'
  BY <1>1 DEF WorldOK, ChannelOK, LoopOK, Shape
<1>5. \A v \in Processes :
        /\ run'[v].rule # "broken"
        /\ ~Holding(v)' => \A p \in Paths : run'[v].scan[p] = Unread
        /\ Staged(v)' => index' = run'[v].scan
        /\ \A u \in Processes : Holding(u)' /\ Holding(v)' => u = v
  BY <1>2, <1>3 DEF Shape, Holding, Staged
<1>6. /\ run'["index"].step # "partial"
      /\ run'["watch"].step = "partial" => published'
  BY <1>2, <1>3 DEF Shape, Processes, Holding
<1>7. /\ at' \in {"off", "register", "pruner"} => Waiting'
      /\ at' = "first" => ~Waiting'
      /\ at' \in {"off", "first", "register"} => queue' = <<>>
      /\ at' # "loop" => pending' = {}
  BY <1>1, <1>3 DEF Shape, Waiting, Processes, Holding
<1> QED BY <1>2, <1>3, <1>4, <1>5, <1>6, <1>7 DEF Shape

LEMMA StartIndexType ==
    ASSUME TypeOK, Shape, StartIndex
    PROVE  TypeOK' /\ Shape'
PROOF
<1> USE TypeParts
<1>1. PICK r \in Runs : r = [Idle EXCEPT !.step = "wait", !.rule = rule]
  BY WatchAssumption DEF Idle, Runs, Steps, WorldOK
<1>2. /\ run' = [run EXCEPT !["index"] = r] /\ rule # "broken"
      /\ UNCHANGED <<tree, rule, edits, queue, at, pruner, pending, index, published, lost>>
  BY <1>1 DEF StartIndex, world, loop, stored
<1>3. r.step = "wait" /\ r.rule = rule /\ \A p \in Paths : r.scan[p] = Unread
  BY <1>1, IdleRun DEF Idle
<1>4. "watch" \in Processes /\ "index" \in Processes
  BY DEF Processes
<1>5. /\ run' \in [Processes -> Runs] /\ run'["index"] = r /\ run'["watch"] = run["watch"]
      /\ \A v \in Processes :
           /\ run'[v].rule # "broken"
           /\ ~Holding(v)' => \A p \in Paths : run'[v].scan[p] = Unread
           /\ Staged(v)' => index' = run'[v].scan
           /\ \A u \in Processes : Holding(u)' /\ Holding(v)' => u = v
  BY <1>2, <1>3, <1>4, RunReplaced
<1>6. WorldOK' /\ ChannelOK' /\ LoopOK' /\ StoredOK' /\ lost' \subseteq Reasons
  BY <1>2 DEF WorldOK, ChannelOK, LoopOK, StoredOK
<1>7. Shape'
  BY <1>2, <1>3, <1>5 DEF Shape, Waiting
<1> QED BY <1>5, <1>6, <1>7

LEMMA StepType ==
    ASSUME TypeOK, Shape, [Next]_vars
    PROVE  TypeOK' /\ Shape'
PROOF
<1>1. CASE \E w \in Processes : RunStep(w) \/ Fail(w)
  <2>1. PICK w \in Processes : RunStep(w) \/ Fail(w)
    BY <1>1
  <2>2. CASE Acquire(w) \/ (\E p \in Paths : Read(w, p)) \/ Stage(w)
    BY <2>2, HoldingType
  <2>3. CASE GiveUp(w) \/ Publish(w) \/ Fail(w)
    BY <2>3, EndingType
  <2> QED BY <2>1, <2>2, <2>3 DEF RunStep
<1>2. CASE KillIndex
  BY <1>2, EndingType DEF Processes
<1>3. CASE StartIndex
  BY <1>3, StartIndexType
<1>4. CASE Start \/ Register \/ LoadPruner \/ Receive \/ Timeout \/ KillWatch
  BY <1>4, LoopType
<1>5. CASE (\E p \in Paths : Edit(p)) \/ (\E r \in Rules : EditConfig(r))
         \/ IgnoredChange \/ WatcherError
  BY <1>5, WorldType
<1>6. CASE UNCHANGED vars
  BY <1>6 DEF vars, world, loop, stored, TypeOK, Shape, Holding, Staged, Waiting
<1> QED BY <1>1, <1>2, <1>3, <1>4, <1>5, <1>6 DEF Next

-----------------------------------------------------------------------------
(***************************************************************************)
(* The types.                                                              *)
(***************************************************************************)

\* Every variable keeps its type, and one run at a time holds the lock: what a run has
\* read is Unread unless it does (watch_repo_with_debounce and the run it calls).
THEOREM WatchTypeCorrect == Spec => []TypeOK
PROOF
<1>1. Init => TypeOK /\ Shape
  BY InitType
<1>2. TypeOK /\ Shape /\ [Next]_vars => TypeOK' /\ Shape'
  BY StepType
<1> QED BY <1>1, <1>2, PTL DEF Spec

-----------------------------------------------------------------------------
(***************************************************************************)
(* Versions.                                                               *)
(***************************************************************************)

\* What a run has read is no newer than the tree and no older than the index: it reads
\* only while it holds the lock, and who holds the lock alone writes the index.
NotNewer ==
    \A p \in Paths :
      /\ index[p] # Absent => index[p] <= tree[p]
      /\ \A w \in Processes :
           run[w].scan[p] \notin {Absent, Unread} =>
             /\ run[w].scan[p] <= tree[p]
             /\ index[p] # Absent => index[p] <= run[w].scan[p]

Older == \A p \in Paths : Absent \in {index[p], index'[p]} \/ index'[p] >= index[p]

\* But for a run that reads or stages, nothing is read, and the index stays.
LEMMA NothingRead ==
    ASSUME TypeOK, [Next]_vars,
           ~\E w \in Processes : (\E p \in Paths : Read(w, p)) \/ Stage(w)
    PROVE  /\ index' = index
           /\ \A p \in Paths : tree'[p] >= tree[p]
           /\ \A w \in Processes, p \in Paths : run'[w].scan[p] \in {run[w].scan[p], Unread}
PROOF
<1>1. /\ run \in [Processes -> Runs] /\ "watch" \in Processes /\ "index" \in Processes
      /\ tree \in [Paths -> Versions] /\ Versions \subseteq Nat
      /\ \A p \in Paths : tree[p] \in Nat
  BY WatchAssumption DEF TypeOK, Processes, Versions
<1>2. CASE (\E p \in Paths : Edit(p)) \/ (\E r \in Rules : EditConfig(r))
         \/ IgnoredChange \/ WatcherError
  <2>1. run' = run /\ index' = index
    BY <1>2 DEF Edit, EditConfig, IgnoredChange, WatcherError, stored
  <2>2. \A p \in Paths : tree'[p] >= tree[p]
    BY <1>1, <1>2 DEF Edit, EditConfig, IgnoredChange, WatcherError, world
  <2> QED BY <2>1, <2>2
<1>3. ASSUME NEW w \in Processes, NEW r \in Runs, \A p \in Paths : r.scan[p] = Unread,
             run' = [run EXCEPT ![w] = r] \/ run' = run
      PROVE  \A v \in Processes, p \in Paths : run'[v].scan[p] \in {run[v].scan[p], Unread}
  BY <1>1, <1>3
<1>4. \A r \in {Idle, [Idle EXCEPT !.step = "wait"], [Idle EXCEPT !.step = "wait", !.rule = rule]} :
         r \in Runs /\ \A p \in Paths : r.scan[p] = Unread
  <2>1. rule \in Rules
    BY DEF TypeOK
  <2>2. [Idle EXCEPT !.step = "wait"] \in Runs /\ [Idle EXCEPT !.step = "wait"].scan = Idle.scan
    BY WatchAssumption DEF Idle, Runs, Steps
  <2>3. /\ [Idle EXCEPT !.step = "wait", !.rule = rule] \in Runs
        /\ [Idle EXCEPT !.step = "wait", !.rule = rule].scan = Idle.scan
    BY <2>1, WatchAssumption DEF Idle, Runs, Steps
  <2> QED BY <2>2, <2>3, IdleRun
<1>5. CASE \E w \in Processes : GiveUp(w) \/ Publish(w) \/ Fail(w) \/ (w = "index" /\ KillIndex)
  <2>1. PICK w \in Processes : GiveUp(w) \/ Publish(w) \/ Fail(w) \/ (w = "index" /\ KillIndex)
    BY <1>5
  <2>2. run' = [run EXCEPT ![w] = Idle] /\ index' = index /\ tree' = tree
    BY <2>1 DEF GiveUp, Publish, Fail, KillIndex, Ended, world, stored
  <2> QED BY <1>1, <1>3, <1>4, <2>2
<1>6. CASE StartIndex \/ Start \/ Register \/ LoadPruner \/ Receive \/ Timeout \/ KillWatch
  <2>1. index' = index /\ tree' = tree
    BY <1>6 DEF StartIndex, Start, Register, LoadPruner, Receive, Timeout, KillWatch, world, stored
  <2>2. PICK w \in Processes, r \in Runs : (\A p \in Paths : r.scan[p] = Unread)
                                           /\ (run' = [run EXCEPT ![w] = r] \/ run' = run)
    BY <1>1, <1>4, <1>6
       DEF StartIndex, Start, Register, LoadPruner, Receive, Timeout, KillWatch, Off
  <2> QED BY <1>1, <1>3, <2>1, <2>2
<1>7. CASE \E w \in Processes : Acquire(w)
  <2>1. PICK w \in Processes : Acquire(w)
    BY <1>7
  <2>2. /\ run' = [run EXCEPT ![w].step = "scan", ![w].rule = IF w = "watch" THEN rule ELSE @]
        /\ index' = index /\ tree' = tree
    BY <2>1 DEF Acquire, world, stored
  <2>3. \A v \in Processes : run'[v].scan = run[v].scan
    BY <1>1, <2>2 DEF Runs
  <2>4. ASSUME NEW v \in Processes, NEW p \in Paths
        PROVE  run'[v].scan[p] \in {run[v].scan[p], Unread}
    <3>1. run'[v].scan = run[v].scan
      BY <2>3
    <3> QED BY <3>1, Zenon
  <2>5. \A p \in Paths : tree'[p] >= tree[p]
    BY <1>1, <2>2
  <2>6. index' = index
    BY <2>2
  <2> QED BY <2>4, <2>5, <2>6
<1>8. CASE UNCHANGED vars
  BY <1>1, <1>8 DEF vars, world, loop, stored
<1>9. CASE \E w \in Processes : RunStep(w) \/ Fail(w)
  BY <1>5, <1>7, <1>9 DEF RunStep
<1>10. CASE KillIndex
  BY <1>1, <1>5, <1>10
<1> QED BY <1>2, <1>6, <1>8, <1>9, <1>10 DEF Next

LEMMA NotNewerStep ==
    ASSUME TypeOK, Shape, NotNewer, [Next]_vars
    PROVE  NotNewer' /\ Older
PROOF
<1>1. /\ run \in [Processes -> Runs]
      /\ \A p \in Paths : /\ tree[p] \in Nat /\ tree'[p] \in Nat /\ index[p] \in Nat \cup {Absent}
                          /\ \A w \in Processes : run[w].scan[p] \in Nat \cup {Absent, Unread}
  <2>1. TypeOK'
    BY StepType
  <2> QED BY <2>1, WatchAssumption DEF TypeOK, Runs, Versions
<1>2. CASE ~\E w \in Processes : (\E p \in Paths : Read(w, p)) \/ Stage(w)
  <2>1. /\ index' = index
        /\ \A p \in Paths : tree'[p] >= tree[p]
        /\ \A w \in Processes, p \in Paths : run'[w].scan[p] \in {run[w].scan[p], Unread}
    BY <1>2, NothingRead
  <2>2. NotNewer'
    BY <1>1, <2>1 DEF NotNewer
  <2> QED BY <1>1, <2>1, <2>2 DEF Older
<1>3. ASSUME NEW w \in Processes, NEW p \in Paths, Read(w, p) PROVE NotNewer' /\ Older
  <2>1. /\ run' = [run EXCEPT ![w].scan[p] = Visible(run[w].rule)[p]]
        /\ index' = index /\ tree' = tree
    BY <1>3 DEF Read, world, stored
  <2>2. Visible(run[w].rule)[p] \in {tree[p], Absent}
    BY DEF Visible
  <2>3. \A v \in Processes, q \in Paths : run'[v].scan[q] \in {run[v].scan[q], tree[q], Absent}
    BY <1>1, <2>1, <2>2 DEF Runs
  <2> QED BY <1>1, <2>1, <2>3 DEF NotNewer, Older
<1>4. ASSUME NEW w \in Processes, Stage(w) PROVE NotNewer' /\ Older
  <2>1. /\ index' = run[w].scan /\ tree' = tree
        /\ \A p \in Paths : run[w].scan[p] # Unread
    BY <1>4 DEF Stage, world
  <2>2. /\ \A v \in Processes : v # w => run'[v] = run[v] /\ ~Holding(v)
        /\ run' \in [Processes -> Runs] /\ Shape'
    BY <1>4, HoldingType DEF TypeOK
  <2>3. run'[w].scan = run[w].scan
    BY <1>1, <1>4 DEF Stage, Runs
  <2>4. \A v \in Processes : v # w => \A p \in Paths : run'[v].scan[p] = Unread
    BY <2>2 DEF Shape
  <2>5. \A v \in Processes : v = w \/ v # w
    OBVIOUS
  <2> QED BY <1>1, <2>1, <2>3, <2>4, <2>5 DEF NotNewer, Older
<1> QED BY <1>2, <1>3, <1>4

\* A run reads the tree only after the lock is its own, and stores only then: what a
\* later reader stored is never overwritten by an earlier reading (index_locked).
THEOREM RowsNeverGoBack == Spec => StoredNotOlder
PROOF
<1>1. Init => TypeOK /\ Shape /\ NotNewer
  <2>1. Init => NotNewer
    BY WatchAssumption, IdleRun DEF Init, NotNewer
  <2> QED BY <2>1, InitType
<1>2. TypeOK /\ Shape /\ NotNewer /\ [Next]_vars => TypeOK' /\ Shape' /\ NotNewer'
  BY StepType, NotNewerStep
<1>3. TypeOK /\ Shape /\ NotNewer /\ [Next]_vars
      => [\A p \in Paths : Absent \in {index[p], index'[p]} \/ index'[p] >= index[p]]_vars
  BY NotNewerStep DEF Older
<1> QED BY <1>1, <1>2, <1>3, PTL DEF Spec, StoredNotOlder

-----------------------------------------------------------------------------
(***************************************************************************)
(* What the loop knows of the tree.                                        *)
(***************************************************************************)

Registered  == at \in {"register", "pruner", "loop"}
Queueing(e) == \E i \in 1 .. Len(queue) : queue[i] = e

\* The rule that will filter what is in the channel.
Filter  == IF at = "loop" THEN pruner ELSE rule
Noticed == pending # {} \/ \E i \in 1 .. Len(queue) : is_relevant_path(Filter, queue[i])
Excused == lost # {} \/ Noticed

\* What the run has read is what it would read now.
ReadNow(w) == \A p \in Paths : run[w].scan[p] \in {Unread, Visible(rule)[p]}

\* The filter is ok.toml's, or will be.
FilterFollows ==
    at = "loop" => \/ pruner = rule \/ rule = "broken"
                   \/ Queueing("config") \/ "config_overflow" \in lost

\* A watch run stores what is there now, or something will start another.
WatchFollows ==
    Holding("watch") => Excused \/ (run["watch"].rule = rule /\ ReadNow("watch"))

\* So does an `ok index` under the same rule, while the watcher waits.
IndexFollows ==
    run["index"].step = "scan" /\ Registered /\ Waiting /\ run["index"].rule = rule
      => Excused \/ ReadNow("index")

\* A waiting watcher has the index of now, or something will start a run.
IdleFollows ==
    Registered /\ Waiting
      => \/ rule = "broken" \/ Excused
         \/ index = Visible(rule) /\ (published \/ run["index"].step = "full")

Follow == FilterFollows /\ WatchFollows /\ IndexFollows /\ IdleFollows

\* An excuse stays one while the filter, the pending paths and the channel do.
LEMMA ExcusedKept ==
    ASSUME Excused, lost \subseteq lost', pending \subseteq pending', Filter' = Filter,
           \A i \in 1 .. Len(queue) : \E j \in 1 .. Len(queue') : queue'[j] = queue[i]
    PROVE  Excused'
PROOF
<1>1. CASE \E i \in 1 .. Len(queue) : is_relevant_path(Filter, queue[i])
  <2>1. PICK i \in 1 .. Len(queue) : is_relevant_path(Filter, queue[i])
    BY <1>1
  <2>2. PICK j \in 1 .. Len(queue') : queue'[j] = queue[i]
    OBVIOUS
  <2>3. is_relevant_path(Filter', queue'[j])
    BY <2>1, <2>2
  <2> QED BY <2>3 DEF Excused, Noticed, is_relevant_path
<1>2. CASE lost # {} \/ pending # {}
  BY <1>2 DEF Excused, Noticed
<1> QED BY <1>1, <1>2 DEF Excused, Noticed

LEMMA InitFollow == Init => Follow
PROOF
<1> SUFFICES ASSUME Init PROVE Follow
  OBVIOUS
<1>1. run["watch"].step = "idle" /\ at = "off"
  BY IdleRun DEF Init, Processes
<1> QED BY <1>1
       DEF Follow, FilterFollows, WatchFollows, IndexFollows, IdleFollows, Registered, Holding

\* Nothing is promised of a watcher that is not there, nor of one about to run.
LEMMA OffFollows ==
    ASSUME at' = "off", run'["watch"].step = "idle"
    PROVE  Follow'
PROOF
<1>1. FilterFollows' /\ WatchFollows' /\ IndexFollows' /\ IdleFollows'
  BY DEF FilterFollows, WatchFollows, IndexFollows, IdleFollows, Registered, Holding
<1> QED BY <1>1 DEF Follow

LEMMA LoopFollows ==
    ASSUME TypeOK, Shape, Follow, Start \/ Register \/ LoadPruner \/ Receive \/ Timeout \/ KillWatch
    PROVE  Follow'
PROOF
<1>1. run \in [Processes -> Runs] /\ "watch" \in Processes
  BY DEF TypeOK, Processes
<1>2. ASSUME Off PROVE Follow'
  <2>1. at' = "off" /\ run'["watch"].step = "idle"
    BY <1>1, <1>2, IdleRun DEF Off
  <2> QED BY <2>1, OffFollows
<1>3. CASE KillWatch
  BY <1>2, <1>3 DEF KillWatch
<1>4. CASE Start \/ Timeout
  <2>1. run'["watch"] = [Idle EXCEPT !.step = "wait"]
    BY <1>1, <1>4 DEF Start, Timeout
  <2>2. run'["watch"].step = "wait"
    BY <2>1 DEF Idle
  <2>3. at' = "loop" => at = "loop" /\ UNCHANGED <<pruner, rule, queue, lost>>
    BY <1>4 DEF Start, Timeout, world
  <2>4. FilterFollows'
    BY <2>3 DEF Follow, FilterFollows, Queueing
  <2>5. WatchFollows' /\ IndexFollows' /\ IdleFollows'
    BY <2>2 DEF WatchFollows, IndexFollows, IdleFollows, Holding, Waiting
  <2> QED BY <2>4, <2>5 DEF Follow
<1>5. ASSUME Registered, at' \in {"pruner", "loop"}, at = "loop" => at' = "loop",
             UNCHANGED <<tree, rule, edits, run, index, published, lost>>,
             FilterFollows', Excused => Excused'
      PROVE  Follow'
  <2>1. ~Holding("watch") => WatchFollows'
    BY <1>5 DEF WatchFollows, Holding
  <2>2. Holding("watch") => WatchFollows'
    BY <1>5 DEF Follow, WatchFollows, ReadNow, Visible
  <2>3. IndexFollows'
    BY <1>5 DEF Follow, IndexFollows, ReadNow, Visible, Waiting
  <2>4. IdleFollows'
    BY <1>5 DEF Follow, IdleFollows, Visible, Waiting
  <2> QED BY <1>5, <2>1, <2>2, <2>3, <2>4 DEF Follow
<1>6. CASE Register
  <2>1. /\ at = "register" /\ at' = "pruner"
        /\ UNCHANGED <<tree, rule, edits, queue, pruner, pending, run, index, published, lost>>
    BY <1>6 DEF Register, world, stored
  <2>2. Excused => Excused'
    BY <2>1, ExcusedKept DEF Filter
  <2> QED BY <1>5, <2>1, <2>2 DEF Registered, FilterFollows
<1>7. CASE LoadPruner
  <2>1. CASE rule = "broken"
    BY <1>2, <1>7, <2>1 DEF LoadPruner
  <2>2. CASE rule # "broken"
    <3>1. /\ at = "pruner" /\ at' = "loop" /\ pruner' = rule
          /\ UNCHANGED <<tree, rule, edits, queue, pending, run, index, published, lost>>
      BY <1>7, <2>2 DEF LoadPruner, world, stored
    <3>2. Excused => Excused'
      BY <3>1, ExcusedKept DEF Filter
    <3> QED BY <1>5, <3>1, <3>2 DEF Registered, FilterFollows
  <2> QED BY <2>1, <2>2
<1>8. CASE Receive
  <2> DEFINE e == Head(queue)
  <2>1. CASE e = "error"
    BY <1>2, <1>8, <2>1 DEF Receive
  <2>2. CASE e # "error"
    <3>1. /\ at = "loop" /\ queue # <<>> /\ queue' = Tail(queue)
          /\ pruner' = PrunerAfter(e)
          /\ pending' = IF is_relevant_path(pruner', e) THEN pending \cup {e} ELSE pending
          /\ UNCHANGED <<tree, rule, edits, at, run, index, published, lost>>
      BY <1>8, <2>2 DEF Receive, world, stored
    <3>2. /\ e = queue[1] /\ Len(queue) \in Nat
          /\ \A i \in 1 .. Len(queue) :
                i = 1 \/ (i - 1 \in 1 .. Len(Tail(queue)) /\ Tail(queue)[i - 1] = queue[i])
      BY <3>1, Received, TypeParts DEF ChannelOK
    <3> HIDE DEF e
    <3>3. FilterFollows'
      <4>1. CASE e = "config"
        BY <3>1, <4>1 DEF FilterFollows, PrunerAfter
      <4>2. CASE e # "config"
        <5>1. Queueing("config") => Queueing("config")'
          BY <3>1, <3>2, <4>2 DEF Queueing
        <5> QED BY <3>1, <4>2, <5>1 DEF Follow, FilterFollows, PrunerAfter
      <4> QED BY <4>1, <4>2
    <3>4. ASSUME Excused PROVE Excused'
      <4>1. CASE is_relevant_path(pruner', e)
        BY <3>1, <4>1 DEF Excused, Noticed
      <4>2. CASE ~is_relevant_path(pruner', e)
        <5>1. pruner' = pruner /\ pending' = pending
          BY <3>1, <4>2 DEF is_relevant_path, PrunerAfter
        <5>2. ASSUME NEW i \in 1 .. Len(queue), is_relevant_path(Filter, queue[i])
              PROVE  Excused'
          <6>1. i # 1
            BY <3>1, <3>2, <4>2, <5>1, <5>2 DEF Filter
          <6>2. PICK j \in 1 .. Len(queue') : queue'[j] = queue[i]
            BY <3>1, <3>2, <6>1
          <6>3. is_relevant_path(Filter', queue'[j])
            BY <3>1, <5>1, <5>2, <6>2 DEF Filter
          <6> QED BY <6>3 DEF Excused, Noticed, is_relevant_path
        <5> QED BY <3>1, <3>4, <5>1, <5>2 DEF Excused, Noticed
      <4> QED BY <4>1, <4>2
    <3> QED BY <1>5, <3>1, <3>3, <3>4 DEF Registered
  <2> QED BY <2>1, <2>2
<1> QED BY <1>3, <1>4, <1>6, <1>7, <1>8

\* An edit of the tree or of ok.toml is seen by whoever reads it later, or its event is
\* in the channel, or it is named as lost.
LEMMA WorldFollows ==
    ASSUME TypeOK, Shape, Follow,
           (\E p \in Paths : Edit(p)) \/ (\E r \in Rules : EditConfig(r))
           \/ IgnoredChange \/ WatcherError
    PROVE  Follow'
PROOF
<1>1. /\ UNCHANGED <<at, pruner, pending, run, index, published>>
      /\ run["watch"].rule # "broken" /\ run["index"].rule # "broken"
  BY DEF Edit, EditConfig, IgnoredChange, WatcherError, loop, stored, Shape, Processes
<1>2. queue \in Seq(Events) /\ Len(queue) \in Nat
  BY TypeParts DEF ChannelOK
<1>3. ASSUME NEW e \in Events, Delivered(e)
      PROVE  /\ at \in {"pruner", "loop"} /\ Queueing(e)'
             /\ \A i \in 1 .. Len(queue) : \E j \in 1 .. Len(queue') : queue'[j] = queue[i]
             /\ Queueing("config") => Queueing("config")'
  <2>1. queue' = Append(queue, e) /\ at \in {"pruner", "loop"}
    BY <1>3, DeliveredType, TypeParts
  <2>2. /\ Len(queue) + 1 \in 1 .. Len(queue') /\ queue'[Len(queue) + 1] = e
        /\ \A i \in 1 .. Len(queue) : i \in 1 .. Len(queue') /\ queue'[i] = queue[i]
    BY <1>2, <2>1, Sent
  <2>3. Queueing(e)'
    BY <2>2 DEF Queueing
  <2>4. \A i \in 1 .. Len(queue) : \E j \in 1 .. Len(queue') : queue'[j] = queue[i]
    BY <2>2
  <2> QED BY <2>1, <2>3, <2>4 DEF Queueing
\* Nothing was seen that could count: what was owed is still owed.
<1>4. ASSUME rule' = rule, FilterFollows', Excused => Excused',
             \/ Visible(rule)' = Visible(rule)
             \/ rule = "broken"
      PROVE  Follow'
  <2>1. WatchFollows'
    BY <1>1, <1>4 DEF Follow, WatchFollows, Holding, ReadNow
  <2>2. IndexFollows'
    BY <1>1, <1>4 DEF Follow, IndexFollows, Registered, Waiting, ReadNow
  <2>3. IdleFollows'
    BY <1>1, <1>4 DEF Follow, IdleFollows, Registered, Waiting
  <2> QED BY <1>4, <2>1, <2>2, <2>3 DEF Follow
<1>5. ASSUME Excused', FilterFollows' PROVE Follow'
  BY <1>5 DEF Follow, WatchFollows, IndexFollows, IdleFollows
\* Before the watcher is registered, only its first run has promised anything.
<1>6. ASSUME at \in {"off", "first"}, ~Holding("watch") \/ Excused' \/ WatchFollows'
      PROVE  Follow'
  <2>1. FilterFollows' /\ IndexFollows' /\ IdleFollows'
    BY <1>1, <1>6 DEF FilterFollows, IndexFollows, IdleFollows, Registered
  <2>2. WatchFollows'
    BY <1>1, <1>6 DEF WatchFollows, Holding
  <2> QED BY <2>1, <2>2 DEF Follow
<1>7. ASSUME NEW p \in Paths, Edit(p) PROVE Follow'
  <2>1. rule' = rule /\ tree' = [tree EXCEPT ![p] = @ + 1] /\ tree \in [Paths -> Versions]
    BY <1>7 DEF Edit, TypeOK
  <2>2. \A q \in Paths : q # p => Visible(rule)'[q] = Visible(rule)[q]
    BY <2>1 DEF Visible, Sees
  <2>3. CASE Delivered(p) /\ lost' = lost
    <3>1. /\ at \in {"pruner", "loop"} /\ Queueing(p)'
          /\ \A i \in 1 .. Len(queue) : \E j \in 1 .. Len(queue') : queue'[j] = queue[i]
          /\ Queueing("config") => Queueing("config")'
      BY <1>3, <2>3 DEF Events
    <3>2. FilterFollows'
      BY <1>1, <2>1, <2>3, <3>1 DEF Follow, FilterFollows
    <3>3. Filter' = Filter
      BY <1>1, <2>1 DEF Filter
    <3>4. Excused => Excused'
      BY <1>1, <2>3, <3>1, <3>3, ExcusedKept
    <3>5. CASE is_relevant_path(Filter', p)
      <4>1. Excused'
        BY <3>1, <3>5 DEF Excused, Noticed, Queueing, is_relevant_path
      <4> QED BY <1>5, <3>2, <4>1
    <3>6. CASE ~is_relevant_path(Filter', p)
      <4>1. p \in Built /\ Filter = "prune"
        BY <3>3, <3>6 DEF is_relevant_path
      <4>2. CASE Filter = rule
        <5>1. Visible(rule)' = Visible(rule)
          BY <2>1, <4>1, <4>2 DEF Visible, Sees
        <5> QED BY <1>4, <2>1, <3>2, <3>4, <5>1
      <4>3. CASE Filter # rule
        <5>1. at = "loop" /\ Filter = pruner /\ pruner # rule
          BY <4>3 DEF Filter
        <5>2. CASE rule = "broken"
          BY <1>4, <2>1, <3>2, <3>4, <5>2
        <5>3. CASE Queueing("config")
          <6>1. Queueing("config")'
            BY <3>1, <5>3
          <6>2. Excused'
            BY <6>1 DEF Excused, Noticed, Queueing, is_relevant_path
          <6> QED BY <1>5, <3>2, <6>2
        <5>4. CASE "config_overflow" \in lost
          <6>1. Excused'
            BY <2>3, <5>4 DEF Excused
          <6> QED BY <1>5, <3>2, <6>1
        <5> QED BY <5>1, <5>2, <5>3, <5>4 DEF Follow, FilterFollows
      <4> QED BY <4>2, <4>3
    <3> QED BY <3>5, <3>6
  <2>4. CASE Unnoticed(Early(p), "overflow")
    <3>1. queue' = queue /\ lost \subseteq lost'
      BY <2>4 DEF Unnoticed
    <3>2. FilterFollows'
      BY <1>1, <2>1, <3>1 DEF Follow, FilterFollows, Queueing
    <3>3. CASE at = "off"
      <4>1. ~Holding("watch")
        BY <3>3 DEF Shape, Waiting, Holding
      <4> QED BY <1>6, <3>3, <4>1
    <3>4. CASE at = "first"
      <4>1. CASE run["watch"].scan[p] # Unread
        <5>1. Excused'
          BY <2>4, <3>4, <4>1 DEF Unnoticed, Early, InFirstBuild, Excused
        <5> QED BY <1>6, <3>4, <5>1
      <4>2. CASE run["watch"].scan[p] = Unread
        <5>1. Excused => Excused'
          BY <1>1, <2>1, <3>1, ExcusedKept DEF Filter
        <5>2. ReadNow("watch") => ReadNow("watch")'
          BY <1>1, <2>2, <4>2 DEF ReadNow
        <5>3. WatchFollows'
          BY <1>1, <2>1, <5>1, <5>2 DEF Follow, WatchFollows, Holding
        <5> QED BY <1>6, <3>4, <5>3
      <4> QED BY <4>1, <4>2
    <3>5. CASE at \in {"register", "pruner", "loop"}
      <4>1. Excused'
        BY <2>4, <3>5 DEF Unnoticed, Early, InFirstBuild, Excused
      <4> QED BY <1>5, <3>2, <4>1
    <3> QED BY <3>3, <3>4, <3>5 DEF TypeOK
  <2> QED BY <1>7, <2>3, <2>4 DEF Edit
<1>8. ASSUME NEW r \in Rules, EditConfig(r) PROVE Follow'
  <2>1. CASE Delivered("config")
    <3>1. Queueing("config")'
      BY <1>3, <2>1 DEF Events
    <3>2. Excused' /\ FilterFollows'
      BY <3>1 DEF Excused, Noticed, Queueing, is_relevant_path, FilterFollows
    <3> QED BY <1>5, <3>2
  <2>2. CASE Unnoticed(EarlyConfig, "config_overflow")
    <3>1. CASE at = "off"
      <4>1. ~Holding("watch")
        BY <3>1 DEF Shape, Waiting, Holding
      <4> QED BY <1>6, <3>1, <4>1
    <3>2. CASE at = "first"
      <4>1. Holding("watch") => Excused'
        BY <2>2, <3>2 DEF Unnoticed, EarlyConfig, InFirstBuild, Excused, Holding
      <4> QED BY <1>6, <3>2, <4>1
    <3>3. CASE at \in {"register", "pruner", "loop"}
      <4>1. Excused' /\ (at = "loop" => "config_overflow" \in lost')
        BY <2>2, <3>3 DEF Unnoticed, EarlyConfig, InFirstBuild, Excused
      <4>2. FilterFollows'
        BY <1>1, <4>1 DEF FilterFollows
      <4> QED BY <1>5, <4>1, <4>2
    <3> QED BY <3>1, <3>2, <3>3 DEF TypeOK
  <2> QED BY <1>8, <2>1, <2>2 DEF EditConfig
<1>9. CASE IgnoredChange \/ WatcherError
  <2>1. PICK e \in Events : Delivered(e)
    BY <1>9 DEF IgnoredChange, WatcherError, Events
  <2>2. tree' = tree /\ rule' = rule /\ lost' = lost
    BY <1>9 DEF IgnoredChange, WatcherError, world
  <2>3. /\ \A i \in 1 .. Len(queue) : \E j \in 1 .. Len(queue') : queue'[j] = queue[i]
        /\ Queueing("config") => Queueing("config")'
    BY <1>3, <2>1
  <2>4. FilterFollows'
    BY <1>1, <2>2, <2>3 DEF Follow, FilterFollows
  <2>5. Excused => Excused'
    BY <1>1, <2>2, <2>3, ExcusedKept DEF Filter
  <2>6. Visible(rule)' = Visible(rule)
    BY <2>2 DEF Visible
  <2> QED BY <1>4, <2>2, <2>4, <2>5, <2>6
<1> QED BY <1>7, <1>8, <1>9

\* An `ok index` that begins, waits, reads, stages, publishes, fails or is killed.
LEMMA IndexRunFollows ==
    ASSUME TypeOK, Shape, Follow,
           StartIndex \/ KillIndex \/ RunStep("index") \/ Fail("index")
    PROVE  Follow'
PROOF
<1>1. /\ run \in [Processes -> Runs] /\ "index" \in Processes /\ "watch" \in Processes
      /\ run["index"] \in Runs /\ Len(queue) \in Nat
  BY DEF TypeOK, Processes
<1>2. UNCHANGED <<tree, rule, edits, queue, pruner, pending, at>>
  BY DEF StartIndex, KillIndex, RunStep, Acquire, GiveUp, Read, Stage, Publish, Fail,
         Ended, world, loop
<1>3. lost \subseteq lost'
  <2>1. Failure("index") \/ lost \subseteq lost'
    BY <1>1 DEF StartIndex, KillIndex, RunStep, Acquire, GiveUp, Read, Stage, Publish, Fail
  <2> QED BY <1>1, <2>1, FailureFacts
<1>4. Excused => Excused'
  BY <1>2, <1>3, ExcusedKept DEF Filter
<1>5. FilterFollows'
  BY <1>2, <1>3 DEF Follow, FilterFollows, Queueing
<1>6. run'["watch"] = run["watch"]
  BY <1>1 DEF StartIndex, KillIndex, RunStep, Acquire, GiveUp, Read, Stage, Publish, Fail, Ended
<1>7. WatchFollows'
  <2>1. ReadNow("watch") => ReadNow("watch")'
    BY <1>2, <1>6 DEF ReadNow, Visible
  <2> QED BY <1>2, <1>4, <1>6, <2>1 DEF Follow, WatchFollows, Holding
<1>8. Registered' = Registered /\ Waiting' = Waiting /\ Visible(rule)' = Visible(rule)
  BY <1>2, <1>6 DEF Registered, Waiting, Visible
\* It neither reads nor stages.
<1>9. ASSUME index' = index, run'["index"].step # "scan",
             published /\ run["index"].step # "full" => published',
             run["index"].step = "full" => published' \/ Excused'
      PROVE  Follow'
  <2>1. IndexFollows'
    BY <1>9 DEF IndexFollows
  <2>2. IdleFollows'
    BY <1>2, <1>4, <1>8, <1>9 DEF Follow, IdleFollows
  <2> QED BY <1>5, <1>7, <2>1, <2>2 DEF Follow
<1>10. ASSUME run' = [run EXCEPT !["index"] = Idle] PROVE run'["index"].step # "scan"
  BY <1>1, <1>10, IdleRun
<1>11. CASE StartIndex
  <2>1. run'["index"] = [Idle EXCEPT !.step = "wait", !.rule = rule]
    BY <1>1, <1>11 DEF StartIndex
  <2>2. run'["index"].step = "wait" /\ run["index"].step = "idle"
    BY <1>11, <2>1 DEF Idle, StartIndex
  <2>3. index' = index /\ published' = published
    BY <1>11 DEF StartIndex, stored
  <2> QED BY <1>9, <2>2, <2>3
<1>12. CASE KillIndex \/ GiveUp("index") \/ Fail("index")
  <2>1. /\ run' = [run EXCEPT !["index"] = Idle] /\ index' = index
        /\ Failure("index")
    BY <1>12 DEF KillIndex, GiveUp, Fail, Ended, stored
  <2>2. published' = published
    BY <1>12 DEF KillIndex, GiveUp, Fail, stored, Shape
  <2>3. run["index"].step = "full" => Excused'
    BY <1>1, <2>1, FailureFacts DEF Staged, Excused
  <2> QED BY <1>9, <1>10, <2>1, <2>2, <2>3
<1>13. CASE Publish("index")
  <2>1. run' = [run EXCEPT !["index"] = Idle] /\ index' = index /\ published' = TRUE
    BY <1>13 DEF Publish, Ended
  <2> QED BY <1>9, <1>10, <2>1
<1>14. CASE Acquire("index")
  <2>1. /\ run'["index"].step = "scan" /\ run'["index"].scan = run["index"].scan
        /\ run["index"].step = "wait" /\ index' = index /\ published' = published
    BY <1>1, <1>14 DEF Acquire, stored, Runs
  <2>2. ReadNow("index")'
    BY <1>1, <2>1 DEF Shape, Holding, ReadNow
  <2>3. IndexFollows'
    BY <2>2 DEF IndexFollows
  <2>4. IdleFollows'
    BY <1>2, <1>4, <1>8, <2>1 DEF Follow, IdleFollows
  <2> QED BY <1>5, <1>7, <2>3, <2>4 DEF Follow
<1>15. ASSUME NEW p \in Paths, Read("index", p) PROVE Follow'
  <2>1. /\ run["index"].step = "scan" /\ index' = index /\ published' = published
        /\ run' = [run EXCEPT !["index"].scan[p] = Visible(run["index"].rule)[p]]
    BY <1>15 DEF Read, stored
  <2>2. /\ run'["index"].step = "scan" /\ run'["index"].rule = run["index"].rule
        /\ run'["index"].scan[p] = Visible(run["index"].rule)[p]
        /\ \A q \in Paths : q # p => run'["index"].scan[q] = run["index"].scan[q]
    BY <1>1, <2>1 DEF Runs
  <2>3. run["index"].rule = rule /\ ReadNow("index") => ReadNow("index")'
    BY <1>8, <1>2, <2>2 DEF ReadNow
  <2>4. IndexFollows'
    BY <1>2, <1>4, <1>8, <2>1, <2>2, <2>3 DEF Follow, IndexFollows
  <2>5. IdleFollows'
    BY <1>2, <1>4, <1>8, <2>1, <2>2 DEF Follow, IdleFollows
  <2> QED BY <1>5, <1>7, <2>4, <2>5 DEF Follow
<1>16. CASE Stage("index")
  <2>1. /\ run["index"].step = "scan" /\ index' = run["index"].scan
        /\ \A p \in Paths : run["index"].scan[p] # Unread
        /\ run["index"].rule # rule => "ok_index" \in lost'
    BY <1>16 DEF Stage
  <2>2. run' = [run EXCEPT !["index"].step = "full"]
    BY <1>16 DEF Stage
  <2>3. run'["index"].step = "full"
    BY <1>1, <2>2 DEF Runs
  <2>4. IndexFollows'
    BY <2>3 DEF IndexFollows
  <2>5. run["index"].rule = rule /\ ReadNow("index") => index' = Visible(rule)
    <3>1. run["index"].scan \in [Paths -> Versions \cup {Absent, Unread}]
      BY <1>1 DEF Runs
    <3>2. ReadNow("index") => \A p \in Paths : index'[p] = Visible(rule)[p]
      BY <2>1 DEF ReadNow
    <3> QED BY <2>1, <3>1, <3>2 DEF Visible
  <2>6. run["index"].rule # rule => Excused'
    BY <2>1 DEF Excused
  <2>7. IdleFollows'
    BY <1>2, <1>4, <1>8, <2>1, <2>3, <2>5, <2>6 DEF Follow, IndexFollows, IdleFollows
  <2> QED BY <1>5, <1>7, <2>4, <2>7 DEF Follow
<1> QED BY <1>11, <1>12, <1>13, <1>14, <1>15, <1>16 DEF RunStep

\* A run of the watcher.
LEMMA WatchRunFollows ==
    ASSUME TypeOK, Shape, Follow, RunStep("watch") \/ Fail("watch")
    PROVE  Follow'
PROOF
<1>1. /\ run \in [Processes -> Runs] /\ "index" \in Processes /\ "watch" \in Processes
      /\ run["watch"] \in Runs /\ Len(queue) \in Nat
  BY DEF TypeOK, Processes
<1>2. UNCHANGED <<tree, rule, edits, queue, pruner, pending>>
  BY DEF RunStep, Acquire, GiveUp, Read, Stage, Publish, Fail, Ended, world, loop
<1>3. Visible(rule)' = Visible(rule)
  BY <1>2 DEF Visible
\* It goes on, so the watcher is not waiting.
<1>4. ASSUME at' = at, ~Waiting', WatchFollows',
             "config_overflow" \in lost => "config_overflow" \in lost'
      PROVE  Follow'
  <2>1. FilterFollows'
    BY <1>2, <1>4 DEF Follow, FilterFollows, Queueing
  <2> QED BY <1>4, <2>1 DEF Follow, IndexFollows, IdleFollows
<1>5. CASE Acquire("watch")
  <2>1. /\ run' = [run EXCEPT !["watch"].step = "scan", !["watch"].rule = rule]
        /\ run["watch"].step = "wait" /\ at' = at /\ lost' = lost \cap {"config_overflow"}
    BY <1>5 DEF Acquire, loop
  <2>2. /\ run'["watch"].step = "scan" /\ run'["watch"].rule = rule
        /\ run'["watch"].scan = run["watch"].scan
    BY <1>1, <2>1 DEF Runs
  <2>3. ReadNow("watch")'
    BY <1>1, <2>1, <2>2 DEF Shape, Holding, ReadNow
  <2>4. WatchFollows'
    BY <1>2, <2>2, <2>3 DEF WatchFollows
  <2> QED BY <1>4, <2>1, <2>2, <2>4 DEF Waiting
<1>6. ASSUME NEW p \in Paths, Read("watch", p) PROVE Follow'
  <2>1. /\ run["watch"].step = "scan" /\ lost' = lost /\ at' = at
        /\ run' = [run EXCEPT !["watch"].scan[p] = Visible(run["watch"].rule)[p]]
    BY <1>6 DEF Read, loop
  <2>2. /\ run'["watch"].step = "scan" /\ run'["watch"].rule = run["watch"].rule
        /\ run'["watch"].scan[p] = Visible(run["watch"].rule)[p]
        /\ \A q \in Paths : q # p => run'["watch"].scan[q] = run["watch"].scan[q]
    BY <1>1, <2>1 DEF Runs
  <2>3. run["watch"].rule = rule /\ ReadNow("watch") => ReadNow("watch")'
    BY <1>2, <1>3, <2>2 DEF ReadNow
  <2>4. Excused => Excused'
    BY <1>2, <2>1, ExcusedKept DEF Filter
  <2>5. WatchFollows'
    BY <1>2, <2>1, <2>2, <2>3, <2>4 DEF Follow, WatchFollows, Holding
  <2> QED BY <1>4, <2>1, <2>2, <2>5 DEF Waiting
<1>7. CASE Stage("watch")
  <2>1. /\ run["watch"].step = "scan" /\ lost' = lost /\ at' = at
        /\ \E s \in {"partial", "full"} : run' = [run EXCEPT !["watch"].step = s]
    BY <1>7 DEF Stage, loop
  <2>2. /\ run'["watch"].step \in {"partial", "full"} /\ run'["watch"].rule = run["watch"].rule
        /\ run'["watch"].scan = run["watch"].scan
    BY <1>1, <2>1 DEF Runs
  <2>3. Excused => Excused'
    BY <1>2, <2>1, ExcusedKept DEF Filter
  <2>4. ReadNow("watch") => ReadNow("watch")'
    BY <1>3, <2>2 DEF ReadNow
  <2>5. WatchFollows'
    BY <1>2, <2>1, <2>2, <2>3, <2>4 DEF Follow, WatchFollows, Holding
  <2> QED BY <1>4, <2>1, <2>2, <2>5 DEF Waiting
\* It ends.
<1>8. ASSUME run' = [run EXCEPT !["watch"] = Idle], lost \subseteq lost',
             at' = "loop" => at = "loop"
      PROVE  FilterFollows' /\ WatchFollows' /\ run'["index"] = run["index"]
  <2>1. run'["watch"].step = "idle" /\ run'["index"] = run["index"]
    BY <1>1, <1>8, IdleRun DEF Processes
  <2>2. FilterFollows'
    BY <1>2, <1>8 DEF Follow, FilterFollows, Queueing
  <2> QED BY <2>1, <2>2 DEF WatchFollows, Holding
<1>9. CASE GiveUp("watch") \/ Fail("watch")
  <2>1. /\ run' = [run EXCEPT !["watch"] = Idle] /\ (at' = "loop" => at = "loop")
        /\ Failure("watch")
    BY <1>9 DEF GiveUp, Fail, Ended
  <2>2. lost \subseteq lost' /\ lost' # {}
    BY <1>1, <2>1, FailureFacts
  <2>3. FilterFollows' /\ WatchFollows'
    BY <1>8, <2>1, <2>2
  <2> QED BY <2>2, <2>3 DEF Follow, IndexFollows, IdleFollows, Excused
<1>10. CASE Publish("watch")
  <2>1. /\ run' = [run EXCEPT !["watch"] = Idle] /\ Staged("watch")
        /\ published' = TRUE /\ index' = index /\ lost' = lost
        /\ at' = IF at = "first" THEN "register" ELSE at
    BY <1>10 DEF Publish, Ended, Staged
  <2>2. FilterFollows' /\ WatchFollows' /\ run'["index"] = run["index"]
    BY <1>8, <2>1
  <2>3. Holding("watch") /\ ~Holding("index") /\ index = run["watch"].scan
    BY <1>1, <2>1 DEF Shape, Holding, Staged
  <2>4. Excused => Excused'
    BY <1>2, <2>1, ExcusedKept DEF Filter
  <2>5. IndexFollows'
    BY <2>2, <2>3 DEF IndexFollows, Holding
  <2>6. run["watch"].rule = rule /\ ReadNow("watch") => index = Visible(rule)
    <3>1. index \in [Paths -> Versions \cup {Absent}] /\ Unread \notin Versions \cup {Absent}
      BY WatchAssumption DEF TypeOK, Versions
    <3>2. \A p \in Paths : index[p] # Unread
      BY <3>1
    <3>3. ReadNow("watch") => \A p \in Paths : index[p] = Visible(rule)[p]
      BY <2>3, <3>2 DEF ReadNow
    <3> QED BY <3>1, <3>3 DEF Visible
  <2>7. IdleFollows'
    BY <1>2, <1>3, <2>1, <2>3, <2>4, <2>6 DEF Follow, WatchFollows, IdleFollows
  <2> QED BY <2>2, <2>5, <2>7 DEF Follow
<1> QED BY <1>5, <1>6, <1>7, <1>9, <1>10 DEF RunStep

LEMMA StepFollow ==
    ASSUME TypeOK, Shape, Follow, [Next]_vars
    PROVE  Follow'
PROOF
<1>1. CASE StartIndex \/ KillIndex \/ \E w \in Processes : RunStep(w) \/ Fail(w)
  BY <1>1, IndexRunFollows, WatchRunFollows DEF Processes
<1>2. CASE Start \/ Register \/ LoadPruner \/ Receive \/ Timeout \/ KillWatch
  BY <1>2, LoopFollows
<1>3. CASE (\E p \in Paths : Edit(p)) \/ (\E r \in Rules : EditConfig(r))
         \/ IgnoredChange \/ WatcherError
  BY <1>3, WorldFollows
<1>4. CASE UNCHANGED vars
  <2>1. UNCHANGED <<tree, rule, edits, queue, at, pruner, pending, run, index, published, lost>>
    BY <1>4 DEF vars, world, loop, stored
  <2>2. /\ Visible(rule)' = Visible(rule) /\ Excused' = Excused
        /\ Registered' = Registered /\ Waiting' = Waiting
    BY <2>1 DEF Visible, Excused, Noticed, Filter, Registered, Waiting
  <2>3. FilterFollows' /\ WatchFollows'
    BY <2>1, <2>2 DEF Follow, FilterFollows, WatchFollows, Queueing, Holding, ReadNow
  <2>4. IndexFollows' /\ IdleFollows'
    BY <2>1, <2>2 DEF Follow, IndexFollows, IdleFollows, ReadNow
  <2> QED BY <2>3, <2>4 DEF Follow
<1> QED BY <1>1, <1>2, <1>3, <1>4 DEF Next

LEMMA FollowForgetsNothing == Follow => NoChangeForgotten
PROOF
<1> SUFFICES ASSUME Follow, Behind
             PROVE  Queued \/ pending # {} \/ run["index"].step = "full" \/ lost # {}
  BY DEF NoChangeForgotten
<1>1. Excused \/ (index = Visible(rule) /\ (published \/ run["index"].step = "full"))
  BY DEF Follow, IdleFollows, Behind, Registered
<1>2. Excused => Queued \/ pending # {} \/ lost # {}
  BY DEF Excused, Noticed, Filter, Queued, Behind
<1> QED BY <1>1, <1>2 DEF Behind, Fresh

\* While the watcher waits, the index is the tree's, or what will make it so is there
\* to be seen, or the change was lost in a way that is named (watch_repo_with_debounce).
THEOREM NothingForgotten == Spec => []NoChangeForgotten
PROOF
<1>1. Init => TypeOK /\ Shape /\ Follow
  BY InitType, InitFollow
<1>2. TypeOK /\ Shape /\ Follow /\ [Next]_vars => TypeOK' /\ Shape' /\ Follow'
  BY StepType, StepFollow
<1>3. Follow => NoChangeForgotten
  BY FollowForgetsNothing
<1> QED BY <1>1, <1>2, <1>3, PTL DEF Spec

=============================================================================
