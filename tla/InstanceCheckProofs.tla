-------------------------- MODULE InstanceCheckProofs --------------------------
(***************************************************************************)
(* Theorems about the instance check, for any number of processes, any     *)
(* servers, identities and corpus sizes, and any thresholds.               *)
(***************************************************************************)
EXTENDS InstanceCheck, TLAPS

(* What a process holds at each step of a check; before the comparison     *)
(* there is nothing to say.                                                *)
Consistent(r) ==
  /\ r.at # "idle" => r.url \in Url /\ r.now \in Observed
  /\ r.at \in {"loaded", "opened", "written"} => r.all \in SeenMap
  /\ r.at \in {"opened", "written"} => r.fd \in Inode
  /\ r.at \in {"idle", "observed"} => r.change = "none" /\ r.previous = None

(* Identities only reach a file, or a process, from an observation: `seen` *)
(* is the history, URL by URL.                                             *)
Known(seen, map) ==
  \A u \in Url : map[u] # None => map[u].install_id \in seen[u] \cup {None}

KnownTo(seen, r) ==
  /\ r.at # "idle" => r.now.install_id \in seen[r.url] \cup {None}
  /\ r.at \in {"loaded", "opened", "written"} => Known(seen, r.all)
  /\ r.previous # None => r.previous.install_id \in seen[r.url] \cup {None}
  /\ r.change = "instance" =>
       /\ r.previous.install_id \in seen[r.url] \ {None}
       /\ r.now.install_id \in seen[r.url] \ {r.previous.install_id}

FilesKnown == \A i \in Inode : text[i] \in SeenMap => Known(ever, text[i])

RunsKnown == \A p \in Process : KnownTo(ever, run[p])

Inv ==
  /\ TypeOK
  /\ \A p \in Process : Consistent(run[p])

IdentityInv == FilesKnown /\ RunsKnown

(* Checks that do not overlap: the one that runs owns the temp file, and   *)
(* what it is about to rename is the live file with one entry replaced.    *)
OneAtATime ==
  \A p, q \in Process : ~At(p, "idle") /\ ~At(q, "idle") => p = q

Replacement(p) == [load_all EXCEPT ![run[p].url] = run[p].now]

OwnsTemp(p) ==
  /\ run[p].at \in {"loaded", "opened", "written"} => run[p].all = Replacement(p)
  /\ run[p].at \in {"opened", "written"} => tmp = run[p].fd
  /\ At(p, "opened") => text[run[p].fd] = Empty
  /\ At(p, "written") => text[run[p].fd] = run[p].all

AloneInv ==
  scene.alone =>
    /\ OneAtATime
    /\ tmp # None => tmp # file
    /\ file # None => text[file] \in SeenMap
    /\ \A p \in Process : OwnsTemp(p)

-----------------------------------------------------------------------------
(* What is read back is a map, whatever is in the file.                    *)
LEMMA Loaded ==
  ASSUME TypeOK PROVE load_all \in SeenMap
<1>1. Unseen \in SeenMap
  BY DEF Unseen, SeenMap
<1>2. QED
  BY <1>1 DEF load_all

LEMMA IdleIsConsistent == Idle \in Runs /\ Consistent(Idle)
  BY DEF Idle, Runs, Steps, Consistent

LEMMA Comparison ==
  \A previous, now, fraction :
    compare(previous, now, fraction) \in {"none", "instance", "fell"}
  BY DEF compare

LEMMA InitInv == Init => Inv
<1> SUFFICES ASSUME Init PROVE Inv
  OBVIOUS
<1>1. TypeOK
  BY IdleIsConsistent DEF Init, TypeOK, Text
<1>2. QED
  BY <1>1, IdleIsConsistent DEF Init, Inv

(* The state around the processes.                                         *)
Around ==
  /\ scene \in Scene /\ text \in [Inode -> Text]
  /\ file \in Inode \cup {None} /\ tmp \in Inode \cup {None}
  /\ ever \in [Url -> SUBSET InstallId]

(* Each step takes one process to a consistent state of its own.           *)
LEMMA OneSteps ==
  ASSUME Inv, Next
  PROVE  \E p \in Process : \E next \in Runs : Step(p, next) /\ Consistent(next) /\ Around'
<1>0. /\ Around /\ TypeOK
      /\ \A p \in Process : run[p] \in Runs /\ Consistent(run[p])
  BY DEF Inv, TypeOK, Around
<1>1. ASSUME NEW p \in Process, NEW u \in scene.urls,
             NEW now \in [install_id : scene.ids \cup {None}, documents : scene.documents],
             observe_instance(p, u, now)
      PROVE  \E next \in Runs : Step(p, next) /\ Consistent(next) /\ Around'
  <2>1. u \in Url /\ now \in Observed
    BY <1>0 DEF Around, Url, InstallId, Documents, Observed
  <2> DEFINE next == [Idle EXCEPT !.at = "observed", !.url = u, !.now = now]
  <2>2. next \in Runs /\ Consistent(next)
    BY <2>1 DEF Idle, Runs, Steps, Consistent
  <2>3. Around'
    BY <1>0, <1>1, <2>1 DEF Around, observe_instance, Observed
  <2>4. QED
    BY <1>1, <2>2, <2>3 DEF observe_instance
<1>2. ASSUME NEW p \in Process, NEW from_env, NEW configured,
             report_instance_change(p, from_env, configured)
      PROVE  \E next \in Runs : Step(p, next) /\ Consistent(next) /\ Around'
  <2> DEFINE previous == load_all[run[p].url]
             change == compare(previous, run[p].now,
                               resolve_drop_fraction(from_env, configured))
             next == [run[p] EXCEPT !.at = "reported", !.previous = previous, !.change = change]
  <2>1. previous \in Seen \cup {None}
    BY <1>0, <1>2, Loaded DEF report_instance_change, At, Consistent, SeenMap
  <2>2. change \in {"none", "instance", "fell"}
    BY Comparison
  <2>3. Step(p, next)
    BY <1>2 DEF report_instance_change
  <2> HIDE DEF previous, change
  <2>4. next \in Runs /\ Consistent(next)
    BY <1>0, <1>2, <2>1, <2>2 DEF Runs, Steps, Consistent, report_instance_change, At
  <2>5. Around'
    BY <1>0, <1>2 DEF Around, report_instance_change
  <2>6. QED
    BY <2>3, <2>4, <2>5
<1>3. ASSUME NEW p \in Process, LoadAll(p)
      PROVE  \E next \in Runs : Step(p, next) /\ Consistent(next) /\ Around'
  <2> DEFINE all == [load_all EXCEPT ![run[p].url] = run[p].now]
             next == [run[p] EXCEPT !.at = "loaded", !.all = all]
  <2>1. all \in SeenMap
    BY <1>0, <1>3, Loaded DEF LoadAll, At, Consistent, SeenMap, Seen
  <2>2. Step(p, next)
    BY <1>3 DEF LoadAll
  <2> HIDE DEF all
  <2>3. next \in Runs /\ Consistent(next)
    BY <1>0, <1>3, <2>1 DEF Runs, Steps, Consistent, LoadAll, At
  <2>4. Around'
    BY <1>0, <1>3 DEF Around, LoadAll
  <2>5. QED
    BY <2>2, <2>3, <2>4
<1>4. ASSUME NEW p \in Process, OpenTemp(p)
      PROVE  \E next \in Runs : Step(p, next) /\ Consistent(next) /\ Around'
  <2>1. PICK i \in Inode : /\ tmp' = i /\ text' = [text EXCEPT ![i] = Empty]
                           /\ Step(p, [run[p] EXCEPT !.at = "opened", !.fd = i])
    BY <1>4 DEF OpenTemp
  <2>2. [run[p] EXCEPT !.at = "opened", !.fd = i] \in Runs
    BY <1>0, <1>4 DEF Runs, Steps
  <2>3. Consistent([run[p] EXCEPT !.at = "opened", !.fd = i])
    BY <1>0, <1>4 DEF Runs, Consistent, OpenTemp, At
  <2>4. Around'
    BY <1>0, <1>4, <2>1 DEF Around, OpenTemp, Text
  <2>5. QED
    BY <2>1, <2>2, <2>3, <2>4
<1>5. ASSUME NEW p \in Process, WriteTemp(p)
      PROVE  \E next \in Runs : Step(p, next) /\ Consistent(next) /\ Around'
  <2>1. PICK t \in Overlaid(run[p].fd, run[p].all) : text' = [text EXCEPT ![run[p].fd] = t]
    BY <1>5 DEF WriteTemp
  <2>2. t \in Text
    BY <1>0, <1>5, <2>1 DEF Overlaid, WriteTemp, At, Consistent, Text
  <2>3. /\ [run[p] EXCEPT !.at = "written"] \in Runs
        /\ Consistent([run[p] EXCEPT !.at = "written"])
    BY <1>0, <1>5 DEF Runs, Steps, Consistent, WriteTemp, At
  <2>4. Around'
    BY <1>0, <1>5, <2>1, <2>2 DEF Around, WriteTemp
  <2>5. QED
    BY <1>5, <2>3, <2>4 DEF WriteTemp
<1>6. ASSUME NEW p \in Process, RenameTemp(p) \/ WriteFails(p) \/ Fails(p)
      PROVE  \E next \in Runs : Step(p, next) /\ Consistent(next) /\ Around'
  <2>1. Step(p, Idle)
    BY <1>6 DEF RenameTemp, WriteFails, Fails, Exit
  <2>2. Around'
    BY <1>0, <1>6 DEF Around, RenameTemp, WriteFails, Fails, Text
  <2>3. QED
    BY <2>1, <2>2, IdleIsConsistent
<1>7. QED
  BY <1>1, <1>2, <1>3, <1>4, <1>5, <1>6 DEF Next, Check

LEMMA NextInv == Inv /\ [Next]_vars => Inv'
<1> SUFFICES ASSUME Inv, [Next]_vars PROVE Inv'
  OBVIOUS
<1>1. CASE UNCHANGED vars
  BY <1>1 DEF vars, Inv, TypeOK, Consistent
<1>2. CASE Next
  <2>1. PICK p \in Process, next \in Runs : Step(p, next) /\ Consistent(next) /\ Around'
    BY <1>2, OneSteps
  <2>2. run \in [Process -> Runs] /\ \A q \in Process : Consistent(run[q])
    BY DEF Inv, TypeOK
  <2>3. run' \in [Process -> Runs] /\ \A q \in Process : Consistent(run'[q])
    BY <2>1, <2>2 DEF Step
  <2>4. TypeOK'
    BY <2>1, <2>3 DEF TypeOK, Around
  <2>5. QED
    BY <2>3, <2>4 DEF Inv, Consistent
<1>3. QED
  BY <1>1, <1>2

(* TypeOK: every state of the check is of the types it is modelled with.   *)
THEOREM TypeCorrect == Spec => []TypeOK
<1>1. Inv => TypeOK
  BY DEF Inv
<1>2. QED
  BY <1>1, InitInv, NextInv, PTL DEF Spec

-----------------------------------------------------------------------------
(* What a process says is decided once, when it compares, and kept.        *)
SaysNothing(r) == r.at \in {"idle", "observed"} /\ r.change = "none" /\ r.previous = None

Compares(old, r) ==
  /\ old.at = "observed" /\ r.at = "reported" /\ r.url = old.url /\ r.now = old.now
  /\ r.previous = load_all[r.url]
  /\ \E from_env, configured \in scene.alerts \cup {None} :
       r.change = compare(r.previous, r.now, resolve_drop_fraction(from_env, configured))

Keeps(old, r) ==
  /\ old.at \notin {"idle", "observed"}
  /\ r.url = old.url /\ r.now = old.now /\ r.previous = old.previous /\ r.change = old.change

Says(p) ==
  /\ SaysNothing(run'[p]) \/ Compares(run[p], run'[p]) \/ Keeps(run[p], run'[p])
  /\ \A q \in Process : q # p => run'[q] = run[q]

(* A step changes the record of one process only.                          *)
LEMMA StepOf ==
  ASSUME Inv, NEW p \in Process, NEW next, Step(p, next)
  PROVE  run'[p] = next /\ \A q \in Process : q # p => run'[q] = run[q]
  BY DEF Step, Inv, TypeOK

LEMMA ReportCompares ==
  ASSUME Inv, NEW p \in Process, NEW from_env \in scene.alerts \cup {None},
         NEW configured \in scene.alerts \cup {None},
         report_instance_change(p, from_env, configured)
  PROVE  Compares(run[p], run'[p]) /\ Says(p)
<1> DEFINE previous == load_all[run[p].url]
           change == compare(previous, run[p].now, resolve_drop_fraction(from_env, configured))
           next == [run[p] EXCEPT !.at = "reported", !.previous = previous, !.change = change]
<1>1. Step(p, next) /\ At(p, "observed")
  BY DEF report_instance_change
<1>2. /\ next.at = "reported" /\ next.url = run[p].url /\ next.now = run[p].now
      /\ next.previous = previous /\ next.change = change
  BY DEF Inv, TypeOK, Runs
<1>3. run'[p] = next /\ \A q \in Process : q # p => run'[q] = run[q]
  BY <1>1, StepOf
<1>4. Compares(run[p], run'[p])
  BY <1>1, <1>2, <1>3 DEF Compares, At
<1>5. QED
  BY <1>3, <1>4 DEF Says

LEMMA WhatIsSaid ==
  ASSUME Inv, Next
  PROVE  \E p \in Process : Says(p)
<1>0. \A p \in Process : run[p] \in Runs
  BY DEF Inv, TypeOK
<1>1. ASSUME NEW p \in Process, NEW u, NEW now, observe_instance(p, u, now)
      PROVE  Says(p)
  <2> DEFINE next == [Idle EXCEPT !.at = "observed", !.url = u, !.now = now]
  <2>1. Step(p, next)
    BY <1>1 DEF observe_instance
  <2>2. next.at = "observed" /\ next.change = "none" /\ next.previous = None
    BY DEF Idle
  <2> HIDE DEF next
  <2>3. QED
    BY <2>1, <2>2, StepOf DEF Says, SaysNothing
<1>2. ASSUME NEW p \in Process, NEW from_env \in scene.alerts \cup {None},
             NEW configured \in scene.alerts \cup {None},
             report_instance_change(p, from_env, configured)
      PROVE  Says(p)
  BY <1>2, ReportCompares
<1>3. ASSUME NEW p \in Process, LoadAll(p)
      PROVE  Says(p)
  <2> DEFINE next == [run[p] EXCEPT !.at = "loaded",
                                    !.all = [load_all EXCEPT ![run[p].url] = run[p].now]]
  <2>1. Step(p, next) /\ At(p, "reported")
    BY <1>3 DEF LoadAll
  <2>2. /\ next.url = run[p].url /\ next.now = run[p].now
        /\ next.previous = run[p].previous /\ next.change = run[p].change
    BY <1>0 DEF Runs
  <2> HIDE DEF next
  <2>3. QED
    BY <2>1, <2>2, StepOf DEF Says, Keeps, At
<1>4. ASSUME NEW p \in Process, OpenTemp(p)
      PROVE  Says(p)
  <2>1. PICK i \in Inode : Step(p, [run[p] EXCEPT !.at = "opened", !.fd = i])
    BY <1>4 DEF OpenTemp
  <2> DEFINE next == [run[p] EXCEPT !.at = "opened", !.fd = i]
  <2>2. /\ next.url = run[p].url /\ next.now = run[p].now
        /\ next.previous = run[p].previous /\ next.change = run[p].change
    BY <1>0 DEF Runs
  <2>3. Step(p, next) /\ At(p, "loaded")
    BY <1>4, <2>1 DEF OpenTemp
  <2> HIDE DEF next
  <2>4. QED
    BY <2>2, <2>3, StepOf DEF Says, Keeps, At
<1>5. ASSUME NEW p \in Process, WriteTemp(p)
      PROVE  Says(p)
  BY <1>0, <1>5, StepOf DEF WriteTemp, Says, Keeps, Runs, At
<1>6. ASSUME NEW p \in Process, RenameTemp(p) \/ WriteFails(p) \/ Fails(p)
      PROVE  Says(p)
  <2>1. Step(p, Idle)
    BY <1>6 DEF RenameTemp, WriteFails, Fails, Exit
  <2>2. QED
    BY <2>1, StepOf DEF Says, SaysNothing, Idle
<1>7. QED
  BY <1>1, <1>2, <1>3, <1>4, <1>5, <1>6 DEF Next, Check

-----------------------------------------------------------------------------
(* A threshold above 100 is never obeyed, so a corpus that lost all of its *)
(* documents has always lost enough.                                       *)
LEMMA ThresholdInRange ==
  ASSUME Inv, NEW from_env \in scene.alerts \cup {None},
         NEW configured \in scene.alerts \cup {None}
  PROVE  resolve_drop_fraction(from_env, configured) \in 0 .. 100
<1>1. scene.alerts \subseteq Nat
  BY ConstantsOK DEF Inv, TypeOK
<1>2. QED
  BY <1>1 DEF resolve_drop_fraction, DEFAULT_DROP_FRACTION

LEMMA EverythingLost ==
  ASSUME NEW d \in Nat, NEW f \in 0 .. 100
  PROVE  d * 100 >= f * d
  OBVIOUS

LEMMA EmptiedIsSaid ==
  ASSUME NEW previous \in Seen, NEW now \in Observed, NEW f \in 0 .. 100,
         previous.documents > 0, now.documents = 0
  PROVE  compare(previous, now, f) # "none"
<1>1. previous # None /\ previous.documents \in Nat /\ now.documents \in Nat
  BY ConstantsOK DEF Seen, Observed, Documents
<1>2. previous.documents - now.documents = previous.documents
  BY <1>1
<1>3. previous.documents * 100 >= f * previous.documents
  BY <1>1, EverythingLost
<1>4. QED
  BY <1>1, <1>2, <1>3 DEF compare

Reported(r) ==
  /\ r.at \notin {"idle", "observed"} /\ r.previous # None
  /\ r.previous.documents > 0 /\ r.now.documents = 0
  => r.change # "none"

(* EmptiedIsReported: once a process has compared, a corpus that is gone   *)
(* has been reported, for any thresholds (resolve_drop_fraction, compare). *)
THEOREM EmptiedCorpusIsReported == Spec => []EmptiedIsReported
<1> DEFINE J == \A p \in Process : Reported(run[p])
<1>1. Init => J
  BY DEF Init, Idle, Reported
<1>2. Inv /\ Inv' /\ J /\ [Next]_vars => J'
  <2> SUFFICES ASSUME Inv, Inv', J, [Next]_vars PROVE J'
    OBVIOUS
  <2>1. CASE UNCHANGED vars
    BY <2>1 DEF vars, Reported
  <2>2. CASE Next
    <3>1. PICK p \in Process : Says(p)
      BY <2>2, WhatIsSaid
    <3>2. run'[p] \in Runs /\ Consistent(run'[p])
      BY DEF Inv, TypeOK
    <3>3. CASE SaysNothing(run'[p])
      BY <3>1, <3>3 DEF SaysNothing, Reported, Says
    <3>4. CASE Keeps(run[p], run'[p])
      BY <3>1, <3>4 DEF Keeps, Reported, Says
    <3>5. CASE Compares(run[p], run'[p])
      <4> DEFINE r == run'[p]
      <4>1. PICK f \in 0 .. 100 : r.change = compare(r.previous, r.now, f)
        BY <3>5, ThresholdInRange DEF Compares
      <4>2. r.previous \in Seen \cup {None} /\ r.now \in Observed
        BY <3>2, <3>5 DEF Runs, Consistent, Compares
      <4>3. Reported(r)
        BY <4>1, <4>2, EmptiedIsSaid DEF Reported
      <4>4. QED
        BY <3>1, <4>3 DEF Says
    <3>6. QED
      BY <3>1, <3>3, <3>4, <3>5 DEF Says
  <2>3. QED
    BY <2>1, <2>2
<1>3. J => EmptiedIsReported
  BY DEF Reported, EmptiedIsReported
<1>4. QED
  BY <1>1, <1>2, <1>3, InitInv, NextInv, PTL DEF Spec

-----------------------------------------------------------------------------
(* What was observed stays observed.                                       *)
LEMMA EverGrows ==
  ASSUME Inv, [Next]_vars
  PROVE  \A u \in Url : ever[u] \subseteq ever'[u]
<1>1. CASE UNCHANGED ever
  BY <1>1
<1>2. ASSUME NEW p \in Process, NEW u, NEW now, observe_instance(p, u, now)
      PROVE  \A v \in Url : ever[v] \subseteq ever'[v]
  BY <1>2 DEF observe_instance, Inv, TypeOK
<1>3. QED
  BY <1>1, <1>2 DEF Next, Check, vars, report_instance_change, LoadAll, OpenTemp, WriteTemp,
                    RenameTemp, WriteFails, Fails

LEMMA MapStaysKnown ==
  ASSUME Inv, [Next]_vars, NEW map, Known(ever, map)
  PROVE  Known(ever', map)
  BY EverGrows DEF Known

LEMMA RunStaysKnown ==
  ASSUME Inv, [Next]_vars, NEW r \in Runs, Consistent(r), KnownTo(ever, r)
  PROVE  KnownTo(ever', r)
<1>1. r.at # "idle" => ever[r.url] \subseteq ever'[r.url]
  BY EverGrows DEF Consistent
<1>2. r.at = "idle" => r.previous = None /\ r.change = "none"
  BY DEF Consistent
<1>3. Known(ever, r.all) => Known(ever', r.all)
  BY MapStaysKnown
<1>4. QED
  BY <1>1, <1>2, <1>3 DEF KnownTo

(* The file read back is known, if the files are.                          *)
LEMMA LoadedKnown ==
  ASSUME Inv, FilesKnown
  PROVE  Known(ever, load_all)
<1>1. CASE file # None /\ text[file] \in SeenMap
  BY <1>1 DEF load_all, FilesKnown, Inv, TypeOK
<1>2. CASE ~(file # None /\ text[file] \in SeenMap)
  BY <1>2 DEF load_all, Unseen, Known
<1>3. QED
  BY <1>1, <1>2

(* A comparison tells of a change only between two identities.             *)
LEMMA TwoIdentities ==
  ASSUME NEW previous, NEW now, NEW f, compare(previous, now, f) = "instance"
  PROVE  /\ previous # None
         /\ None \notin {previous.install_id, now.install_id}
         /\ previous.install_id # now.install_id
  BY DEF compare

(* Only a process that holds a map writes one.                             *)
LEMMA WhatIsWritten ==
  ASSUME Inv, [Next]_vars, NEW i \in Inode, text'[i] \in SeenMap
  PROVE  \/ text'[i] = text[i]
         \/ \E p \in Process : At(p, "opened") /\ text'[i] = run[p].all
<1>1. CASE UNCHANGED text
  BY <1>1
<1>2. ASSUME NEW p \in Process, OpenTemp(p)
      PROVE  text'[i] \in {text[i], Empty}
  BY <1>2 DEF OpenTemp, Inv, TypeOK
<1>3. ASSUME NEW p \in Process, WriteTemp(p)
      PROVE  At(p, "opened") /\ text'[i] \in {text[i], run[p].all, Torn}
  BY <1>3 DEF WriteTemp, Overlaid, Inv, TypeOK
<1>4. ASSUME NEW p \in Process, WriteFails(p)
      PROVE  text'[i] \in {text[i], Torn}
  BY <1>4 DEF WriteFails, Inv, TypeOK
<1>5. QED
  BY <1>1, <1>2, <1>3, <1>4, ConstantsOK
  DEF Next, Check, vars, observe_instance, report_instance_change, LoadAll, RenameTemp, Fails

LEMMA NextFilesKnown ==
  ASSUME Inv, IdentityInv, [Next]_vars
  PROVE  FilesKnown'
<1> SUFFICES ASSUME NEW i \in Inode, text'[i] \in SeenMap
             PROVE  Known(ever', text'[i])
  BY DEF FilesKnown
<1>1. CASE text'[i] = text[i]
  BY <1>1, MapStaysKnown DEF IdentityInv, FilesKnown
<1>2. CASE \E p \in Process : At(p, "opened") /\ text'[i] = run[p].all
  BY <1>2, MapStaysKnown DEF IdentityInv, RunsKnown, KnownTo, At
<1>3. QED
  BY <1>1, <1>2, WhatIsWritten

LEMMA NextRunsKnown ==
  ASSUME Inv, IdentityInv, [Next]_vars
  PROVE  RunsKnown'
<1>0. \A p \in Process : run[p] \in Runs /\ Consistent(run[p]) /\ KnownTo(ever, run[p])
  BY DEF Inv, TypeOK, IdentityInv, RunsKnown
<1>1. ASSUME NEW p \in Process, NEW u \in scene.urls,
             NEW now \in [install_id : scene.ids \cup {None}, documents : scene.documents],
             observe_instance(p, u, now)
      PROVE  KnownTo(ever', run'[p])
  <2> DEFINE next == [Idle EXCEPT !.at = "observed", !.url = u, !.now = now]
  <2>1. u \in Url
    BY <1>1 DEF Url, Inv, TypeOK
  <2>2. now.install_id \in ever'[u] \cup {None}
    BY <1>1, <2>1 DEF observe_instance, Inv, TypeOK
  <2>3. run'[p] = next
    BY <1>1, StepOf DEF observe_instance
  <2>4. /\ next.at = "observed" /\ next.url = u /\ next.now = now
        /\ next.previous = None /\ next.change = "none"
    BY DEF Idle
  <2> HIDE DEF next
  <2>5. QED
    BY <2>2, <2>3, <2>4 DEF KnownTo
<1>2. ASSUME NEW p \in Process, Compares(run[p], run'[p])
      PROVE  KnownTo(ever', run'[p])
  <2> DEFINE r == run'[p]
  <2>1. PICK f : r.change = compare(r.previous, r.now, f)
    BY <1>2 DEF Compares
  <2>2. /\ r.url \in Url /\ r.now.install_id \in ever[r.url] \cup {None}
        /\ r.at = "reported" /\ r.previous = load_all[r.url]
    BY <1>0, <1>2 DEF Compares, Consistent, KnownTo
  <2>3. r.previous # None => r.previous.install_id \in ever[r.url] \cup {None}
    BY <2>2, LoadedKnown DEF Known, IdentityInv
  <2>4. ever[r.url] \subseteq ever'[r.url]
    BY <2>2, EverGrows
  <2> HIDE DEF r
  <2>5. KnownTo(ever', r)
    BY <2>1, <2>2, <2>3, <2>4, TwoIdentities DEF KnownTo
  <2>6. QED
    BY <2>5 DEF r
<1>3. ASSUME NEW p \in Process, LoadAll(p)
      PROVE  KnownTo(ever', run'[p])
  <2> DEFINE all == [load_all EXCEPT ![run[p].url] = run[p].now]
             next == [run[p] EXCEPT !.at = "loaded", !.all = all]
  <2>1. At(p, "reported") /\ Step(p, next)
    BY <1>3 DEF LoadAll
  <2>2. run[p].url \in Url /\ run[p].now.install_id \in ever[run[p].url] \cup {None}
    BY <1>0, <2>1 DEF Consistent, KnownTo, At
  <2>3. Known(ever, all)
    BY <2>2, Loaded, LoadedKnown DEF Known, IdentityInv, Inv, SeenMap
  <2>4. Known(ever', all)
    BY <2>3, MapStaysKnown
  <2>5. KnownTo(ever', run[p])
    BY <1>0, RunStaysKnown
  <2> HIDE DEF all
  <2>6. /\ next.url = run[p].url /\ next.now = run[p].now
        /\ next.previous = run[p].previous /\ next.change = run[p].change
        /\ next.all = all
    BY <1>0 DEF Runs
  <2>7. run'[p] = next
    BY <2>1, StepOf
  <2> HIDE DEF next
  <2>8. QED
    BY <2>1, <2>4, <2>5, <2>6, <2>7 DEF KnownTo, At
<1>4. ASSUME NEW p \in Process, OpenTemp(p) \/ WriteTemp(p)
      PROVE  KnownTo(ever', run'[p])
  <2>1. /\ run[p].at \in {"loaded", "opened"} /\ run'[p].at \in {"opened", "written"}
        /\ run'[p].url = run[p].url /\ run'[p].now = run[p].now
        /\ run'[p].previous = run[p].previous /\ run'[p].change = run[p].change
        /\ run'[p].all = run[p].all
    <3>1. CASE OpenTemp(p)
      <4>1. PICK i \in Inode : Step(p, [run[p] EXCEPT !.at = "opened", !.fd = i])
        BY <3>1 DEF OpenTemp
      <4> DEFINE next == [run[p] EXCEPT !.at = "opened", !.fd = i]
      <4>2. /\ next.at = "opened" /\ next.url = run[p].url /\ next.now = run[p].now
            /\ next.previous = run[p].previous /\ next.change = run[p].change
            /\ next.all = run[p].all
        BY <1>0 DEF Runs
      <4>3. run'[p] = next /\ At(p, "loaded")
        BY <3>1, <4>1, StepOf DEF OpenTemp
      <4> HIDE DEF next
      <4>4. QED
        BY <4>2, <4>3 DEF At
    <3>2. CASE WriteTemp(p)
      BY <1>0, <3>2, StepOf DEF WriteTemp, Runs, At
    <3>3. QED
      BY <1>4, <3>1, <3>2
  <2>2. KnownTo(ever', run[p])
    BY <1>0, RunStaysKnown
  <2>3. QED
    BY <2>1, <2>2 DEF KnownTo
<1>5. KnownTo(ever', Idle)
  BY DEF KnownTo, Idle
<1>6. \A q \in Process : run'[q] = run[q] => KnownTo(ever', run'[q])
  BY <1>0, RunStaysKnown
<1>7. CASE UNCHANGED vars
  BY <1>6, <1>7 DEF vars, RunsKnown
<1>8. CASE Next
  <2>1. ASSUME NEW p \in Process, KnownTo(ever', run'[p]), NEW next, Step(p, next)
        PROVE  RunsKnown'
    BY <1>6, <2>1, StepOf DEF RunsKnown
  <2>2. ASSUME NEW p \in Process, NEW u \in scene.urls,
               NEW now \in [install_id : scene.ids \cup {None}, documents : scene.documents],
               observe_instance(p, u, now)
        PROVE  RunsKnown'
    BY <1>1, <2>1, <2>2 DEF observe_instance
  <2>3. ASSUME NEW p \in Process, NEW from_env \in scene.alerts \cup {None},
               NEW configured \in scene.alerts \cup {None},
               report_instance_change(p, from_env, configured)
        PROVE  RunsKnown'
    BY <1>2, <2>1, <2>3, ReportCompares DEF report_instance_change
  <2>4. ASSUME NEW p \in Process, LoadAll(p)
        PROVE  RunsKnown'
    BY <1>3, <2>1, <2>4 DEF LoadAll
  <2>5. ASSUME NEW p \in Process, OpenTemp(p) \/ WriteTemp(p)
        PROVE  RunsKnown'
    BY <1>4, <2>1, <2>5 DEF OpenTemp, WriteTemp
  <2>6. ASSUME NEW p \in Process, RenameTemp(p) \/ WriteFails(p) \/ Fails(p)
        PROVE  RunsKnown'
    BY <1>5, <2>1, <2>6, StepOf DEF RenameTemp, WriteFails, Fails, Exit
  <2>7. QED
    BY <1>8, <2>2, <2>3, <2>4, <2>5, <2>6 DEF Next, Check
<1>9. QED
  BY <1>7, <1>8

(* NoFalseAlarm: however many checks interleave, fail or tear the file, a  *)
(* change of instance is only reported between two identities that were    *)
(* observed at that URL (compare, last_seen, record).                      *)
THEOREM AlarmsAreTrue == Spec => []NoFalseAlarm
<1>1. Init => IdentityInv
  <2> SUFFICES ASSUME Init PROVE IdentityInv
    OBVIOUS
  <2>1. FilesKnown
    BY ConstantsOK DEF Init, FilesKnown
  <2>2. RunsKnown
    BY DEF Init, RunsKnown, KnownTo, Idle
  <2>3. QED
    BY <2>1, <2>2 DEF IdentityInv
<1>2. Inv /\ IdentityInv /\ [Next]_vars => IdentityInv'
  BY NextFilesKnown, NextRunsKnown DEF IdentityInv
<1>3. IdentityInv => NoFalseAlarm
  BY DEF IdentityInv, RunsKnown, KnownTo, NoFalseAlarm
<1>4. QED
  BY <1>1, <1>2, <1>3, InitInv, NextInv, PTL DEF Spec

-----------------------------------------------------------------------------
(* One check at a time.                                                    *)
LEMMA ReadsTheSame ==
  ASSUME file' = file, file # None => text'[file] = text[file]
  PROVE  load_all' = load_all
  BY DEF load_all

(* While one process is at work the others are idle, and remain so.        *)
LEMMA OthersIdle ==
  ASSUME Inv, AloneInv, scene.alone, NEW p \in Process, NEW next, Step(p, next),
         ~At(p, "idle") \/ \A q \in Process : At(q, "idle")
  PROVE  /\ run'[p] = next
         /\ \A q \in Process : q # p => run'[q].at = "idle"
  BY StepOf DEF AloneInv, OneAtATime, At

(* So the invariant is about that process only.                            *)
LEMMA AloneByOne ==
  ASSUME scene' = scene, NEW p \in Process,
         \A q \in Process : q # p => run'[q].at = "idle",
         (tmp # None => tmp # file)', (file # None => text[file] \in SeenMap)',
         OwnsTemp(p)'
  PROVE  AloneInv'
<1>1. \A q \in Process : q # p => OwnsTemp(q)'
  BY DEF OwnsTemp, At
<1>2. OneAtATime'
  BY DEF OneAtATime, At
<1>3. QED
  BY <1>1, <1>2 DEF AloneInv

StoreStep == load_all' = load_all \/ \E u \in Url, o \in Seen : Store!Record(u, o)

LEMMA AloneSteps ==
  ASSUME Inv, AloneInv, Next, scene.alone
  PROVE  AloneInv' /\ StoreStep
<1>0. /\ TypeOK /\ OneAtATime
      /\ tmp # None => tmp # file
      /\ file # None => text[file] \in SeenMap
      /\ \A p \in Process : run[p] \in Runs /\ Consistent(run[p]) /\ OwnsTemp(p)
  BY DEF Inv, TypeOK, AloneInv
<1>1. ASSUME NEW p \in Process, NEW next, Step(p, next), UNCHANGED <<scene, text, file, tmp>>,
             ~At(p, "idle") \/ \A q \in Process : At(q, "idle"),
             next.at \in {"idle", "observed", "reported"}
      PROVE  AloneInv' /\ StoreStep
  <2>1. run'[p] = next /\ \A q \in Process : q # p => run'[q].at = "idle"
    BY <1>1, OthersIdle
  <2>2. OwnsTemp(p)'
    BY <1>1, <2>1 DEF OwnsTemp, At
  <2>3. AloneInv'
    BY <1>0, <1>1, <2>1, <2>2, AloneByOne
  <2>4. QED
    BY <1>1, <2>3, ReadsTheSame DEF StoreStep
<1>2. ASSUME NEW p \in Process, NEW u, NEW now, observe_instance(p, u, now)
      PROVE  AloneInv' /\ StoreStep
  <2> DEFINE next == [Idle EXCEPT !.at = "observed", !.url = u, !.now = now]
  <2>1. Step(p, next) /\ (\A q \in Process : At(q, "idle")) /\ UNCHANGED <<scene, text, file, tmp>>
    BY <1>2 DEF observe_instance
  <2>2. next.at = "observed"
    BY DEF Idle
  <2> HIDE DEF next
  <2>3. QED
    BY <1>1, <2>1, <2>2
<1>3. ASSUME NEW p \in Process, NEW from_env, NEW configured,
             report_instance_change(p, from_env, configured)
      PROVE  AloneInv' /\ StoreStep
  <2> DEFINE previous == load_all[run[p].url]
             change == compare(previous, run[p].now, resolve_drop_fraction(from_env, configured))
             next == [run[p] EXCEPT !.at = "reported", !.previous = previous, !.change = change]
  <2>1. Step(p, next) /\ At(p, "observed") /\ UNCHANGED <<scene, text, file, tmp>>
    BY <1>3 DEF report_instance_change
  <2>2. next.at = "reported"
    BY <1>0 DEF Runs
  <2> HIDE DEF next
  <2>3. QED
    BY <1>1, <2>1, <2>2 DEF At
<1>4. ASSUME NEW p \in Process, LoadAll(p)
      PROVE  AloneInv' /\ StoreStep
  <2> DEFINE all == [load_all EXCEPT ![run[p].url] = run[p].now]
             next == [run[p] EXCEPT !.at = "loaded", !.all = all]
  <2>1. Step(p, next) /\ At(p, "reported") /\ UNCHANGED <<scene, text, file, tmp>>
    BY <1>4 DEF LoadAll
  <2>2. next.at = "loaded" /\ next.url = run[p].url /\ next.now = run[p].now /\ next.all = all
    BY <1>0 DEF Runs
  <2>3. run'[p] = next /\ \A q \in Process : q # p => run'[q].at = "idle"
    BY <2>1, OthersIdle DEF At
  <2>4. load_all' = load_all
    BY <2>1, ReadsTheSame
  <2> HIDE DEF next
  <2>5. OwnsTemp(p)'
    BY <2>2, <2>3, <2>4 DEF OwnsTemp, At, Replacement
  <2>6. QED
    BY <1>0, <2>1, <2>3, <2>4, <2>5, AloneByOne DEF StoreStep
<1>5. ASSUME NEW p \in Process, OpenTemp(p)
      PROVE  AloneInv' /\ StoreStep
  <2>1. PICK i \in Inode : /\ IF tmp # None THEN i = tmp ELSE Free(i)
                           /\ tmp' = i /\ text' = [text EXCEPT ![i] = Empty]
                           /\ Step(p, [run[p] EXCEPT !.at = "opened", !.fd = i])
    BY <1>5 DEF OpenTemp
  <2> DEFINE next == [run[p] EXCEPT !.at = "opened", !.fd = i]
  <2>2. /\ next.at = "opened" /\ next.url = run[p].url /\ next.now = run[p].now
        /\ next.all = run[p].all /\ next.fd = i
    BY <1>0 DEF Runs
  <2>3. run'[p] = next /\ \A q \in Process : q # p => run'[q].at = "idle"
    BY <1>5, <2>1, OthersIdle DEF OpenTemp, At
  <2>4. i # file /\ text'[i] = Empty /\ \A j \in Inode : j # i => text'[j] = text[j]
    BY <1>0, <2>1 DEF Free, TypeOK
  <2>5. UNCHANGED <<scene, file>> /\ file \in Inode \cup {None}
    BY <1>0, <1>5 DEF OpenTemp, TypeOK
  <2>6. load_all' = load_all
    BY <2>4, <2>5, ReadsTheSame
  <2>7. run[p].all = Replacement(p)
    BY <1>0, <1>5 DEF OpenTemp, At, OwnsTemp
  <2> HIDE DEF next
  <2>8. OwnsTemp(p)'
    BY <2>1, <2>2, <2>3, <2>4, <2>6, <2>7 DEF OwnsTemp, At, Replacement
  <2>9. (tmp # None => tmp # file)' /\ (file # None => text[file] \in SeenMap)'
    BY <1>0, <2>1, <2>4, <2>5
  <2>10. QED
    BY <2>3, <2>5, <2>6, <2>8, <2>9, AloneByOne DEF StoreStep
<1>6. ASSUME NEW p \in Process, WriteTemp(p)
      PROVE  AloneInv' /\ StoreStep
  <2> DEFINE next == [run[p] EXCEPT !.at = "written"]
  <2>1. /\ At(p, "opened") /\ Step(p, next) /\ UNCHANGED <<scene, file, tmp>>
        /\ tmp = run[p].fd /\ run[p].fd \in Inode /\ text[run[p].fd] = Empty
        /\ run[p].all = Replacement(p)
    BY <1>0, <1>6 DEF WriteTemp, At, OwnsTemp, Consistent
  <2>2. text' = [text EXCEPT ![run[p].fd] = run[p].all]
    BY <1>6, <2>1 DEF WriteTemp, Overlaid
  <2>3. tmp # file
    BY <1>0, <2>1, ConstantsOK
  <2>4. /\ next.at = "written" /\ next.url = run[p].url /\ next.now = run[p].now
        /\ next.all = run[p].all /\ next.fd = run[p].fd
    BY <1>0 DEF Runs
  <2>5. run'[p] = next /\ \A q \in Process : q # p => run'[q].at = "idle"
    BY <2>1, OthersIdle DEF At
  <2>6. text'[tmp] = run[p].all /\ \A j \in Inode : j # tmp => text'[j] = text[j]
    BY <1>0, <2>1, <2>2 DEF TypeOK
  <2>7. load_all' = load_all
    BY <1>0, <2>1, <2>3, <2>6, ReadsTheSame DEF TypeOK
  <2> HIDE DEF next
  <2>8. OwnsTemp(p)'
    BY <2>1, <2>4, <2>5, <2>6, <2>7 DEF OwnsTemp, At, Replacement
  <2>9. (tmp # None => tmp # file)' /\ (file # None => text[file] \in SeenMap)'
    BY <1>0, <2>1, <2>3, <2>6 DEF TypeOK
  <2>10. QED
    BY <2>1, <2>5, <2>7, <2>8, <2>9, AloneByOne DEF StoreStep
<1>7. ASSUME NEW p \in Process, RenameTemp(p)
      PROVE  AloneInv' /\ StoreStep
  <2>1. /\ At(p, "written") /\ Step(p, Idle) /\ UNCHANGED <<scene, text>>
        /\ tmp = run[p].fd /\ run[p].fd \in Inode /\ text[run[p].fd] = run[p].all
        /\ run[p].all = Replacement(p) /\ run[p].all \in SeenMap
        /\ run[p].url \in Url /\ run[p].now \in Seen
    BY <1>0, <1>7 DEF RenameTemp, Exit, At, OwnsTemp, Consistent, Seen
  <2>2. tmp # None
    BY <2>1, ConstantsOK
  <2>3. file' = tmp /\ tmp' = None
    BY <1>7, <2>2 DEF RenameTemp
  <2>4. load_all' = Replacement(p)
    BY <2>1, <2>2, <2>3 DEF load_all
  <2>5. Store!Record(run[p].url, run[p].now)
    BY <2>4 DEF Replacement, Store!Record
  <2>6. run'[p] = Idle /\ \A q \in Process : q # p => run'[q].at = "idle"
    BY <2>1, OthersIdle DEF At
  <2>7. OwnsTemp(p)'
    BY <2>6 DEF OwnsTemp, At, Idle
  <2>8. (tmp # None => tmp # file)' /\ (file # None => text[file] \in SeenMap)'
    BY <2>1, <2>3
  <2>9. QED
    BY <2>1, <2>5, <2>6, <2>7, <2>8, AloneByOne DEF StoreStep
<1>8. ASSUME NEW p \in Process, WriteFails(p)
      PROVE  AloneInv' /\ StoreStep
  <2>1. /\ At(p, "opened") /\ Step(p, Idle) /\ UNCHANGED <<scene, file, tmp>>
        /\ tmp = run[p].fd /\ run[p].fd \in Inode
        /\ text' = [text EXCEPT ![run[p].fd] = Torn]
    BY <1>0, <1>8 DEF WriteFails, Exit, At, OwnsTemp, Consistent
  <2>2. tmp # file
    BY <1>0, <2>1, ConstantsOK
  <2>3. \A j \in Inode : j # tmp => text'[j] = text[j]
    BY <1>0, <2>1 DEF TypeOK
  <2>4. load_all' = load_all
    BY <1>0, <2>1, <2>2, <2>3, ReadsTheSame DEF TypeOK
  <2>5. run'[p] = Idle /\ \A q \in Process : q # p => run'[q].at = "idle"
    BY <2>1, OthersIdle DEF At
  <2>6. OwnsTemp(p)'
    BY <2>5 DEF OwnsTemp, At, Idle
  <2>7. (tmp # None => tmp # file)' /\ (file # None => text[file] \in SeenMap)'
    BY <1>0, <2>1, <2>2, <2>3 DEF TypeOK
  <2>8. QED
    BY <2>1, <2>4, <2>5, <2>6, <2>7, AloneByOne DEF StoreStep
<1>9. ASSUME NEW p \in Process, Fails(p)
      PROVE  AloneInv' /\ StoreStep
  BY <1>1, <1>9 DEF Fails, Exit, Idle
<1>10. QED
  BY <1>2, <1>3, <1>4, <1>5, <1>6, <1>7, <1>8, <1>9 DEF Next, Check

LEMMA AloneInvNext ==
  ASSUME Inv, AloneInv, [Next]_vars
  PROVE  AloneInv' /\ [Store!Next]_load_all
<1>1. scene' = scene
  BY DEF Next, Check, vars, observe_instance, report_instance_change, LoadAll, OpenTemp,
         WriteTemp, RenameTemp, WriteFails, Fails
<1>2. CASE UNCHANGED vars
  <2>1. load_all' = load_all
    BY <1>2, ReadsTheSame DEF vars
  <2>2. AloneInv'
    BY <1>2, <2>1 DEF vars, AloneInv, OneAtATime, OwnsTemp, Replacement, At
  <2>3. QED
    BY <2>1, <2>2
<1>3. CASE ~scene.alone
  BY <1>1, <1>3 DEF AloneInv, Store!Next
<1>4. CASE Next /\ scene.alone
  BY <1>4, AloneSteps DEF StoreStep, Store!Next
<1>5. QED
  BY <1>2, <1>3, <1>4

LEMMA InitAlone == Init => AloneInv /\ Store!Init
<1> SUFFICES ASSUME Init PROVE AloneInv /\ Store!Init
  OBVIOUS
<1>1. \A p \in Process : run[p] = Idle
  BY DEF Init
<1>2. AloneInv
  BY <1>1 DEF Init, AloneInv, OneAtATime, OwnsTemp, At, Idle
<1>3. Store!Init
  BY DEF Init, load_all, Unseen, Store!Init
<1>4. QED
  BY <1>2, <1>3

(* RecordsWhole: checks that do not overlap implement the store, step by   *)
(* step: a rename replaces the observation of one URL and keeps all the    *)
(* others, and every other step, a failed write and a kill included, is    *)
(* one the store does not see (record).                                    *)
THEOREM ImplementsStore == Spec => RecordsWhole
<1>1. Init => AloneInv /\ Store!Init
  BY InitAlone
<1>2. Inv /\ AloneInv /\ [Next]_vars => AloneInv' /\ [Store!Next]_load_all
  BY AloneInvNext
<1>3. QED
  BY <1>1, <1>2, InitInv, NextInv, PTL DEF Spec, RecordsWhole, Store!Spec

(* A check that is killed, or finds the disk full, never leaves half a     *)
(* file, as long as no other check overlaps it (record; that two that do   *)
(* overlap can is what the run half_file shows).                           *)
THEOREM WholeWhenAlone == Spec => [](scene.alone => NeverHalfAFile)
<1>1. AloneInv => (scene.alone => NeverHalfAFile)
  BY DEF AloneInv, NeverHalfAFile
<1>2. Inv /\ AloneInv /\ [Next]_vars => AloneInv'
  BY AloneInvNext
<1>3. QED
  BY <1>1, <1>2, InitAlone, InitInv, NextInv, PTL DEF Spec
=============================================================================
