---------------------------- MODULE InstanceCheck ----------------------------
(***************************************************************************)
(* Before every question, `docbrain ask` compares what answers at a URL    *)
(* with what it last saw there, says so if that changed, and records the   *)
(* new observation in ~/.docbrain/instances.json                           *)
(* (crates/docbrain-cli/src/instance_check.rs, observe_instance and        *)
(* report_instance_change in main.rs).                                     *)
(*                                                                         *)
(* Processes take no lock and share one temp file, so the file system is   *)
(* modelled by inodes: a name may be moved from under an open file.  A     *)
(* file's text is the map it parses to, or Empty, or Torn when one text    *)
(* was laid over the rest of a longer one; neither of these parses.        *)
(***************************************************************************)
EXTENDS Integers

CONSTANTS
  Process,
  Scene,              \* a machine, with
                      \*   alone      no check begins before the last has ended
                      \*   urls       the servers that are asked
                      \*   ids        identities, minted once per database
                      \*   documents  corpus sizes that are observed
                      \*   alerts     thresholds, in percent, that may be configured
  Inode,
  Empty, Torn, None

Url == UNION {s.urls : s \in Scene}
InstallId == UNION {s.ids : s \in Scene}
Documents == UNION {s.documents : s \in Scene}

Observed == [install_id : InstallId \cup {None}, documents : Documents]
Seen == Observed
SeenMap == [Url -> Seen \cup {None}]
Unseen == [u \in Url |-> None]
Text == SeenMap \cup {Empty, Torn}

ASSUME ConstantsOK ==
  /\ \A s \in Scene : s.alone \in BOOLEAN /\ s.documents \subseteq Nat /\ s.alerts \subseteq Nat
  /\ None \notin Process \cup InstallId \cup Inode \cup Observed
  /\ Empty \notin SeenMap /\ Torn \notin SeenMap

VARIABLES
  scene,
  text,      \* the text in each inode
  file,      \* the inode named instances.json
  tmp,       \* the inode named instances.json.tmp
  run,       \* what each process is doing
  ever       \* the identities ever observed at each URL (history)

vars == <<scene, text, file, tmp, run, ever>>

Idle == [at |-> "idle", url |-> None, now |-> None, change |-> "none", previous |-> None,
         all |-> None, fd |-> None]

Init ==
  /\ scene \in Scene
  /\ text = [i \in Inode |-> Empty]
  /\ file = None
  /\ tmp = None
  /\ run = [p \in Process |-> Idle]
  /\ ever = [u \in Url |-> {}]

----------------------------------------------------------------------------
DEFAULT_DROP_FRACTION == 10

(* Mutant of resolve_drop_fraction: a value out of range is obeyed.        *)
resolve_drop_fraction_obeyed(from_env, configured) ==
  LET chosen == IF from_env # None THEN from_env ELSE configured
  IN  IF chosen # None THEN chosen ELSE DEFAULT_DROP_FRACTION

(* DOCBRAIN_CORPUS_DROP_ALERT, else the file's value; out of range, the    *)
(* default.                                                                *)
resolve_drop_fraction(from_env, configured) ==
  LET chosen == IF from_env # None THEN from_env ELSE configured
  IN  IF chosen # None /\ chosen <= 100 THEN chosen ELSE DEFAULT_DROP_FRACTION

(* Mutant of compare: an identity that is not known yet is a different one. *)
compare_unguarded(previous, now, drop_fraction) ==
  IF previous = None THEN "none"
  ELSE IF previous.install_id # now.install_id THEN "instance"
  ELSE LET lost == previous.documents - now.documents
       IN  IF previous.documents > 0 /\ lost > 0
              /\ lost * 100 >= drop_fraction * previous.documents
             THEN "fell" ELSE "none"

compare(previous, now, drop_fraction) ==
  IF previous = None THEN "none"
  ELSE IF None \notin {previous.install_id, now.install_id}
          /\ previous.install_id # now.install_id
         THEN "instance"
  ELSE LET lost == previous.documents - now.documents
       IN  IF previous.documents > 0 /\ lost > 0
              /\ lost * 100 >= drop_fraction * previous.documents
             THEN "fell" ELSE "none"

(* A missing file and one that does not parse both read as nothing seen.   *)
load_all == IF file # None /\ text[file] \in SeenMap THEN text[file] ELSE Unseen

----------------------------------------------------------------------------
At(p, step) == run[p].at = step
Step(p, next) == run' = [run EXCEPT ![p] = next]
Exit(p) == Step(p, Idle)

(* The instance says who it is; one that cannot is passed over in silence. *)
observe_instance(p, u, now) ==
  /\ At(p, "idle")
  /\ scene.alone => \A q \in Process : At(q, "idle")
  /\ Step(p, [Idle EXCEPT !.at = "observed", !.url = u, !.now = now])
  /\ ever' = [ever EXCEPT ![u] = @ \cup ({now.install_id} \ {None})]
  /\ UNCHANGED <<scene, text, file, tmp>>

report_instance_change(p, from_env, configured) ==
  /\ At(p, "observed")
  /\ LET previous == load_all[run[p].url]
     IN  Step(p, [run[p] EXCEPT
                    !.at = "reported", !.previous = previous,
                    !.change = compare(previous, run[p].now,
                                       resolve_drop_fraction(from_env, configured))])
  /\ UNCHANGED <<scene, text, file, tmp, ever>>

(* record: read the file once more, ...                                    *)
LoadAll(p) ==
  /\ At(p, "reported")
  /\ Step(p, [run[p] EXCEPT !.at = "loaded",
                            !.all = [load_all EXCEPT ![run[p].url] = run[p].now]])
  /\ UNCHANGED <<scene, text, file, tmp, ever>>

Free(i) == i \notin {file, tmp} /\ \A p \in Process : run[p].fd # i

(* Mutant of OpenTemp: the live file is opened in place.                   *)
OpenLive(p) ==
  /\ At(p, "loaded")
  /\ \E i \in Inode :
       /\ IF file # None THEN i = file ELSE Free(i)
       /\ tmp' = i
       /\ text' = [text EXCEPT ![i] = Empty]
       /\ Step(p, [run[p] EXCEPT !.at = "opened", !.fd = i])
  /\ UNCHANGED <<scene, file, ever>>

(* ... create the temp file or cut the one that is there, ...              *)
OpenTemp(p) ==
  /\ At(p, "loaded")
  /\ \E i \in Inode :
       /\ IF tmp # None THEN i = tmp ELSE Free(i)
       /\ tmp' = i
       /\ text' = [text EXCEPT ![i] = Empty]
       /\ Step(p, [run[p] EXCEPT !.at = "opened", !.fd = i])
  /\ UNCHANGED <<scene, file, ever>>

(* ... write from the start of what was opened, ...                        *)
Overlaid(i, all) == IF text[i] = Empty THEN {all} ELSE {all, Torn}

WriteTemp(p) ==
  /\ At(p, "opened")
  /\ \E t \in Overlaid(run[p].fd, run[p].all) : text' = [text EXCEPT ![run[p].fd] = t]
  /\ Step(p, [run[p] EXCEPT !.at = "written"])
  /\ UNCHANGED <<scene, file, tmp, ever>>

(* ... and rename whatever has the temp name by now.                       *)
RenameTemp(p) ==
  /\ At(p, "written")
  /\ file' = IF tmp # None THEN tmp ELSE file
  /\ tmp' = None
  /\ Exit(p)
  /\ UNCHANGED <<scene, text, ever>>

(* Mutant of WriteFails: what a failed write left is not accounted for.    *)
WriteFailsUnknown(p) ==
  /\ At(p, "opened")
  /\ text' = [text EXCEPT ![run[p].fd] = None]
  /\ Exit(p)
  /\ UNCHANGED <<scene, file, tmp, ever>>

(* A disk with no room takes part of the text, and nothing is renamed.     *)
WriteFails(p) ==
  /\ At(p, "opened")
  /\ text' = [text EXCEPT ![run[p].fd] = Torn]
  /\ Exit(p)
  /\ UNCHANGED <<scene, file, tmp, ever>>

(* Any other error is silent; a process may also be killed anywhere.       *)
Fails(p) ==
  /\ ~At(p, "idle")
  /\ Exit(p)
  /\ UNCHANGED <<scene, text, file, tmp, ever>>

Check(p) ==
  \/ \E from_env, configured \in scene.alerts \cup {None} :
       report_instance_change(p, from_env, configured)
  \/ LoadAll(p) \/ OpenTemp(p) \/ WriteTemp(p) \/ RenameTemp(p)

Next ==
  \E p \in Process :
    \/ \E u \in scene.urls, now \in [install_id : scene.ids \cup {None}, documents : scene.documents] :
         observe_instance(p, u, now)
    \/ Check(p)
    \/ WriteFails(p)
    \/ Fails(p)

Spec == Init /\ [][Next]_vars

----------------------------------------------------------------------------
Steps == {"idle", "observed", "reported", "loaded", "opened", "written"}

Runs == [at : Steps, url : Url \cup {None}, now : Observed \cup {None},
         change : {"none", "instance", "fell"}, previous : Seen \cup {None},
         all : SeenMap \cup {None}, fd : Inode \cup {None}]

TypeOK ==
  /\ scene \in Scene
  /\ text \in [Inode -> Text]
  /\ file \in Inode \cup {None}
  /\ tmp \in Inode \cup {None}
  /\ run \in [Process -> Runs]
  /\ ever \in [Url -> SUBSET InstallId]

(* One process at a time, killed or out of disk at any step, implements    *)
(* the promise: each finished check replaces its own URL's observation,    *)
(* and no other observation is ever lost (record).                         *)
Store == INSTANCE SeenStore WITH seen <- load_all, alone <- scene.alone
RecordsWhole == Store!Spec

(* No alarm is false: however checks interleave and whatever they tear or  *)
(* lose, a change of instance is only reported between two identities that *)
(* were really observed at that URL (compare, last_seen, record).          *)
NoFalseAlarm ==
  \A p \in Process :
    run[p].change = "instance" =>
      /\ run[p].previous.install_id \in ever[run[p].url] \ {None}
      /\ run[p].now.install_id \in ever[run[p].url] \ {run[p].previous.install_id}

(* A corpus that is gone is always reported, whatever threshold is set and *)
(* however it was mistyped ("a typo that reads as 10 would otherwise mean  *)
(* never alarm"; resolve_drop_fraction, compare).                          *)
EmptiedIsReported ==
  \A p \in Process :
    /\ run[p].at \notin {"idle", "observed"} /\ run[p].previous # None
    /\ run[p].previous.documents > 0 /\ run[p].now.documents = 0
    => run[p].change # "none"

(* "An interrupted write must not leave a half-file that reads as `this    *)
(* URL was never seen`" (record).                                          *)
NeverHalfAFile == file # None => text[file] \in SeenMap
=============================================================================
