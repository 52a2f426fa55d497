# DocBrain: TLA+ models of the evidence bundle and the clients

This directory holds TLA+ specifications of DocBrain's client-side code, the
TLC configurations that check them on small instances, and proofs, checked by
TLAPS, of what the readers of a bundle, the verifier, the sign-ins, the
instance check, the command line and the MCP connector guarantee for instances
of any size. The models are written from the Rust sources under `src/crates/`
and from `src/tools/verify_dbev.py`.

## The system

DocBrain answers questions over an organisation's documents. The server is
closed; the repository holds the clients and the evidence tooling.

| Part | State it keeps | Operations | Interacts with |
|---|---|---|---|
| `docbrain-evidence` readers (`chain.rs`, `keys.rs`, `checkpoint.rs`) | running head, position, accepted key events, checkpoints | read a line, accept or end with an error | the pipeline feeds them lines; checkpoints ask the key chain who may sign |
| `docbrain-evidence` pipeline (`verify.rs`, `manifest.rs`, `container.rs`, `verdict.rs`) | findings, record infos, erasure targets | one call, two phases | opens a `.dbev` container, drives the three readers, classifies |
| `docbrain-evidence` builder (`builder.rs`) | a recipe | recipe calls, mutation hooks, `build` | writes the container the pipeline reads |
| `tools/verify_dbev.py` | none between bundles | a second, independent verifier | must agree with the Rust one |
| `docbrain` command line (`main.rs`) | none between runs | read the command line and the named environment file, resolve server and key, hand over to a handler, exit | every other part of the CLI |
| `docbrain` profiles, config, login | `config.json` under `.config.lock`, a saved conversation per identity | log in and out, resolve server and key, ask | several processes and the user's editor share the file; servers issue and revoke keys |
| `docbrain` instance check | `instances.json`: what was last seen at each URL | observe, compare, record | several processes share it and its temp file, without a lock |
| `docbrain` connect | the connection before the dance, a deadline | request a link, poll | server, browser, OAuth provider |
| `docbrain` ask and incident | a tail buffer of the stream | ask, parse events | server stream |
| `docbrain` generate | the reviewer's standing flags, the document | generate, review, ask again, ship | server, the `--out` name on disk |
| `docbrain` ci check-claims (with `repository.rs`) | none | derive the repository, send the changed paths | CI environment, git, server |
| `docbrain` evidence commands, `docbrain-verify` | none | verify, `--against`, why, tables, export | the crate; heads of two bundles |
| `docbrain-mcp` stdio loop and tools | a conversation | dispatch lines, call tools, save and revise captures | the agent on one side, the server on the other |
| `docbrain-mcp` HTTP binding | per request | classify, answer | MCP hosts (old and new protocol) |

What is hard in it:

* **The evidence bundle.** A `.dbev` file carries a window of a signed,
  hash-chained journal: records, key events (genesis, rotations, a compromise
  that seals), checkpoints, erasures, content, anchors, a manifest. The
  verifier is offline and must say VALID, TAMPERED or CANNOT_VERIFY from the
  bytes alone. Correctness is a matter of long sequences of lines, boundaries
  (`>=` against `>`, windows, seals), order (what is trusted before it has been
  checked) and combinations (several deviations at once). Two programs in two
  languages must reach the same answer. It is the core of the program's claims,
  and it is modelled first.
* **Shared client state.** Two commands rewrite one config file while a user
  edits it, minutes pass between a check and the write it guards, and a saved
  key must not reach another server. The instance file is shared without a
  lock, and a process may die between creating, writing and renaming it.
* **What an exit status or an answer promises.** A script goes by a status and
  an agent by a sentence; both are given after requests that may be refused,
  time out, or be carried out although their answer is lost.
* **Rounds, waits, streams.** The review rounds of `generate` ship the last
  document made; `connect` polls against two deadlines for an event that is told
  only by comparing two answers; a stream is cut into chunks anywhere; a
  conversation may die at the server between two questions.

What makes each part correct:

* readers: no line accepted that does not continue the chain; authority over a
  position never changes once it has been covered; a seal is final; a boundary
  names one checkpoint;
* pipeline: an honest export is VALID; VALID is never said of anything but the
  journal; each deviation is found under its own row; a compromise reaches all
  the records it should; there is always a verdict; the independent verifier
  says the same;
* builder: what it counts in the manifest is what it wrote;
* sign-ins: a key goes only to the server that issued it, an update of the
  config file is never lost, a conversation stays with its identity, a live key
  is never forgotten;
* instance check: no observation is lost or half written by one check, and no
  alarm is false however many run;
* command line: status 0 only for what was done;
* generate: what ships is the last document made, and what is said is about it;
* check-claims: a gate passes only on an answer about this repository;
* evidence commands: FORK is only said of two histories of one journal;
* connect: a wait ends, not before its link has expired, and does not take an
  old grant for a new one;
* ask: events are handled as they were sent;
* connector: what the agent is told of a save is so at the server, and a
  question is answered although conversations die.

## Modules

| Module | Models | State and actions |
|---|---|---|
| `Digest` | `hash.rs` | digests as terms; a term's first component is the domain prefix |
| `SequenceTypes` | | sequences of untyped elements |
| `ChainWalk` | `chain.rs` `chain_heads`, `walk_chain` | per walk: start, position, head, heads, lines; an action per outcome of a line (`Overflow`, `Duplicate`, `Gap`, `LinkMismatch`, `Accept`), `ParseFailure`, `Finish` |
| `KeyChain` | `keys.rs` | events, recovery key, seal, last position, head; an action per outcome of genesis, rotation and compromise lines; `key_at_position`, `classify_compromise` |
| `Checkpoints` | `checkpoint.rs` | checkpoints, anomalies, running head; an action per outcome; `range_bounds` |
| `Verdict` | `verdict.rs` `classify` | findings to verdict and dominant finding |
| `BundleFormat` | member names and members of a container | |
| `BundleBuilder` | `builder.rs` | one variable `recipe`; an action per recipe call and per mutation hook; `build(recipe)` is the bundle |
| `VerifyBundle` | `verify.rs`, with `manifest.rs` and `container.rs` | `stage` and an action per step of phases A and B; INSTANCEs of the three readers on the bundle's lines |
| `VerifyDbev` | `verify_dbev.py`, from the key chain to the verdict | no state: `verify_bundle(data)`, and an operator per function; the loops are folds over lines, the exceptions the first check that fails |
| `EvidencePipeline` | builder and both verifiers end to end | `Write`, `Build`, `Verify`; the properties |
| `Profiles` | `main.rs`: config file, lock, logins, logout, target resolution, saved conversations | the file's sign-ins, the lock, each process's step, the saved conversations; servers' keys; an action per stretch of a command between two requests or file accesses |
| `SeenStore` | | what `instances.json` promises: each observation replaced whole and alone |
| `InstanceCheck` | `instance_check.rs` and its call in `main.rs` | inodes and the two names that point to them, each process's step; an action per file operation |
| `EnvFile` | `load_docbrain_env` in both programs | whether a named environment file is loaded, refused or not named |
| `CommandLine` | `main.rs`: parsing, `--docbrain-env`, target, and every handler of one request | the program's step, the command, what the server changed, what was said; an action per handler |
| `Generate` | `handle_generate` | the round, the prior flags, the artifact, the answer, the `--out` name; an action per request and per branch of a round |
| `CheckClaims` | `check_claims`, `repository.rs` | the place of the run (runner, git, fork), the diff, the question, the answer |
| `EvidenceCommands` | `evidence verify`, `--against`, `why`, tables, `export`; `docbrain_verify.rs` | the bundles, the comparison, the report, the file |
| `AskStream` | `handle_ask`, `handle_incident`, `handle_sse_stream` | bytes that arrived, the buffer, the events handled, the conversation saved |
| `Connect` | `handle_connect` | the grant and whether the dance completed, the command's step, time in polls |
| `McpConnector` | `docbrain-mcp` | the task at hand, the request, what was told, the server's captures, the conversation; an action per kind of line and per tool |
| `Clients` | `main` and `run` of `docbrain`; the two programs | an INSTANCE of each module above it; `HandOver`, `Handler`, `Finish`, `Meanwhile` |
| `MC*` | | constants for TLC |
| `*Proofs` | | lemmas and theorems |

`ChainWalk`, `KeyChain` and `Checkpoints` serve twice. On their own they are
given every line a file could hold next, so a behaviour is one file and the
properties are about all files. Inside `VerifyBundle` the same `ReadLine`,
`Read` and `Finish` actions are driven with the lines of one bundle.

`Clients` is one run of either program. A handler's state starts `off`.
`CommandLine` goes from the command line to the point where `run` calls a
handler; `HandOver` starts the handler's module, `Handler` is any step of it,
`Finish` makes its status the program's, and `Meanwhile` is what others do to
its surroundings. Handlers of one request have no module of their own.

### Correspondence and abstractions

* A line is a record of the fields the code reads. A signature is the key that
  made it, plus `intact`, which is false when the signed payload was changed
  afterwards. Whether a line parses is a choice of its own; in the pipeline a
  file's last line does not parse when the file's last byte was flipped.
* A digest is the term that was hashed: two are equal only if their inputs are.
  This is the collision resistance the code assumes of SHA-256.
* A compromise record keeps `claimed_compromise_time` only as "RFC 3339
  or not"; the comparison of a witness's time with it is the constant `Trusted`,
  the checkpoints whose operator-supplied time precedes the claim.
* The manifest's member hashes are the members themselves.
* Recipe calls that would only repeat or overwrite an earlier one are left out;
  they lead to a recipe another order of calls also reaches.
* `build` panics for a window beyond the journal; `CanBuild` is its guard.
* Findings that end phase A, or that the walker raises, keep their row and no
  position, in both verifiers; a finding about a record keeps both.
* `Profiles`: a server is a URL up to trailing slashes. Whatever happens between
  two accesses to the file or two requests is one step, and each step may be the
  last (`Fails`: an error, a refusal, a failed write, a kill). `handle_login`
  stands for the password and the browser sign-in, which differ only in how the
  key is obtained. A user's hand edit takes no lock; the one instant it may not
  fall in is between a writer's `read_config_strict` and its rename.
* `InstanceCheck`: a text is the map it parses to, `Empty`, or `Torn`: a text
  written over the rest of a longer one, which may or may not still parse.
* `Connect`: the times of grants are numbers that grow with each grant.
* `Generate`: a document is the set of claims its review contradicts; flags of
  two rounds are compared through the evidence they cite, as in the code.
* `CheckClaims`: a derived name is this repository, another one, an ssh alias
  that git may resolve to either, or junk that is no name.
* `EvidenceCommands`: a bundle is its verdict, its journal (a genesis and
  records) and its range. How a verdict is reached is `VerifyBundle`.
* `AskStream`: an event is four bytes on the wire, a character of two bytes
  that names the event and two newlines; the buffer has an entry per byte, what
  that byte decoded to, and a chunk is any run of bytes.
* `McpConnector`: a capture is its tool, its place and its text; its source is
  made of them as the code makes it, so that two captures may share one.

## Runs

| Run | Instance | States | Shows |
|---|---|---|---|
| `chain_walk` | two walks, two bodies, u64 up to 3, anchors at 0 and after a first line | 11,664 | contiguity without wrap, every link, shared history of two bundles |
| `key_chain` | three keys, positions up to 3 | 7,035 | custody, order, seal, stable authority |
| `checkpoints` | every authority of two keys over positions 0..2, two heads, two instants | 4,792 | unambiguous boundaries, authority, chaining, clocks |
| `signed_export` | up to three records, rotations at 2 and 4, windows at 1 and 2, erasures; or a compromise at 1, 2 or 3 with anchors and trusted witnesses of 1 and 3 | 225,752 | honest means VALID, withheld named exactly; a compromise is contained; there is always a verdict |
| `hooked_export` | two records, a rotation, a window, one hook of any kind; two hooks without rotation or window; one hook beside a compromise; anchors and clocks | 650,353 | VALID means unaltered, each hook under its row, deviations do not cancel, both verifiers agree |
| `profiles` | two processes, one profile and the default sign-in, two servers, two keys, `DOCBRAIN_SERVER_URL`, hand edits | 391,371 | no lost update, keys and conversations stay home, no live key forgotten |
| `instance` | two URLs, thresholds 0, 100 and 1000 percent; one check at a time with crashes and full disks, or two that share the temp file | 490,926 | one at a time implements `SeenStore`; an emptied corpus is reported; no false alarm |
| `clients` | every command, and a connector with its agent | 110,064 | exit statuses, documents, gates, accusations, waits and answers rest on what happened; commands end; questions are answered |
| `window_at_end`, `half_file`, `first_connect`, `split_character` | expect a violation | | see Disagreements |

`CHECK_DEADLOCK FALSE` is set where reading a file, verifying a bundle or
running a command ends; `Profiles` and `InstanceCheck` run on, and deadlock is
checked.

### Bounds

`MaxU64` bounds positions: 3 in `chain_walk`, so that overflow is reached from
both anchors; 3 in `key_chain`, so that genesis, two rotations and a seal fit;
2 in `checkpoints`, so that three checkpoints fit. `MaxPosition` = 9 in the
pipeline is beyond every position a recipe reaches. `MaxRecords` is 2 or 3:
with a window of 1 there is a record before it, at its start and inside it;
in-range erasures and closure lines add journal positions after the records.
`MaxHooks` bounds deviations: 0 or 1 in `signed_export`, 2 for "no pair
cancels". `Explored` bounds the recipes that are built, so that one run can take
small recipes with everything and larger ones without: `MCPipeline` states each
choice (`PlainOrSealed`, `OneOrTwoHooks`). `RotationAt`, `CompromiseAt`,
`WindowAt` put the events before, at and after the last record, the values at
which the code compares. Three keys are the fewest with which a retired key, a
current key and a foreign one differ.

In `profiles` two processes are enough for a lost update, two servers for a key
sent elsewhere, and two keys for one that replaces another; `EnvKeys` and
`FlagKeys` are empty, since each more identity doubles the conversations and the
proofs cover them. Keys are issued once, which bounds how many logins succeed.
In the instance check, three inodes are the live file, the temp file and one
still open; `Documents` = {0, 20} are the ends of the drop rule.

In `clients` three claims rest on two pieces of evidence, so that two flags can
be one and the same for the review; `MaxRounds` = 2 allows a first document, one
that comes back worse and one that ships. Two geneses and journals of up to two
records tell a fork from another journal and from bundles without a common
position. Of the three captures two share a source although their texts differ.
The wait of `connect` and its link last equally long, as in the code (ten
minutes each): `CONNECT_WAIT` = `STATE_TTL` = 4 polls. `MaxWritten` = 3 allows the old grant,
the dance and a refresh, and `Slowest` = 1 lets an answer come after both
deadlines. The feeds are a whole answer, an error and a stream whose first event
does not parse, each cut into chunks in every way. `MaxFaults` = 2 lets the
question that replaces a dead conversation fail too.

### Fairness

`EventuallyVerdict` needs weak fairness of `Verify`. `verify_bundle` is one
synchronous call on bytes in memory, with no lock, I/O or callback in it, so a
step that can be taken is taken. Nothing is assumed of whoever writes the
recipe.

`CommandEnds` and `QuestionAnswered` need weak fairness of `OwnStep`: a step of
the program itself while it waits for no one. A request under a client timeout
is answered, refused or given up in the end, so its next step always comes; a
request without one (`Waiting`: most commands of one request, `check-claims`,
`ask`, an export) may last for ever, and `CommandEnds` excepts exactly those.
Standard input is assumed to end. For `docbrain-mcp` the requests count as
answered, since the server bounds a turn of an ask by a clock of its own
(`backend.rs:51`, `Mcp!Serve`). `Serve` holds two steps of the agent: one with a
question open asks it again, and does as it is told when its conversation is
dead; `QuestionAnswered` is about such an agent. Nothing else is assumed of the
agent, and nothing of the reader, the browser or the server's grants and answers.

### Disagreements between comments and code

* `export_window_start` (`builder.rs:678`) allows a position up to the total
  record count. At the total, start and end checkpoint share a position,
  `verify_checkpoint_chain` refuses the second, and an honest recipe is
  TAMPERED, row 4 (`WindowUpToTotal`).
* `record` (`instance_check.rs:166`) says that an interrupted write must not
  leave a half-file. All processes write through the one name
  `instances.json.tmp`; one that renames it while another has just opened it
  publishes a file that is empty or torn, and reads as nothing ever seen
  (`NeverHalfAFile`).
* `connect_wait_state` (`main.rs:2523`) says one rule covers a first connect and
  a re-connect. A source that was never connected has no `refreshed_at`, which
  the rule takes for a server that does not report it, so a first connect is not
  waited for (`UnknowableIsUnreported`).
* `block_text_coloured` (`main.rs:2188`) says the server's text is rendered
  verbatim. `handle_sse_stream` (`main.rs:4697`) decodes each chunk by itself,
  so a character whose bytes fall into two chunks becomes two replacement
  characters (`ShownVerbatim`).

Met while modelling, without a run of their own:

* `erase_via_closure` (`builder.rs:395`) promises VALID with a withheld record.
  If the record lies at or before the window's start, the closure check
  (`verify.rs:353`) has no case for it, unlike the in-range check, and the
  bundle is CANNOT_VERIFY, row 22. `HonestIsValid` leaves such a recipe out.
* `tamper_member` (`builder.rs:571`) says row 12 for any member, and
  `verify_members` (`manifest.rs:348`) that hashes are compared before anything
  is interpreted. Keys and manifest are parsed before; a flipped byte in them is
  row 22. `HookIsReported` states the row each member really gets.
* `login_server` (`main.rs:3808`) says a profile that holds a key is never moved
  to another server. The check is made before the sign-in and not repeated when
  it is saved, so a key pasted into the file meanwhile is replaced. `NeverMoved`
  excepts an edit since the login took the lock.
* `instance_check.rs:17` says a changed `install_id` is reported without
  condition. An observation without an identity (a database that has not booted)
  replaces the one that was known, and the next is compared with nothing.
* `connect_wait_state` (`main.rs:2499`) says Connected means that the dance
  completed. A failed first request looks like a source without a grant, and the
  old grant then like a new one; so does a refresh during the wait.
  `WaitIsHonest` excepts both.
* `exit_with` (`main.rs:7103`) keeps 3 for errors so that 0, 1 and 2 can be
  verdicts of `evidence verify` (`docs/evidence.md:105`). A usage error ends
  with 2, and a bad profile or environment file with 1, before the command is
  reached.
* An answer to check-claims without `paths_checked` (`main.rs:7245`) reads as
  no paths and passes.
* A later round of `generate` whose answer has no freshness report counts as one
  without contradictions.
* A gateway's error after a capture was saved is told as "Not saved". The agent
  is counted as unsure then (`SaidIsSo`).

## Proofs

`ChainWalkProofs`, `KeyChainProofs`, `CheckpointsProofs`, `ProfilesProofs` and
`InstanceCheckProofs` prove every property the runs of their components check,
invariants, action properties and the refinement of `SeenStore`, for every value
of the constants. `ClientsProofs` proves all safety properties of `Clients`;
what is about the connector alone is proved in `McpConnectorProofs`.
`EvidencePipelineProofs` proves three of the pipeline's: what a VALID verdict
means for a compromise and for the journal, and that an honest export gets it;
and the half of a fourth, `DeviationIsReported`, that is about content.

Assumptions: positions are bounded by a natural number, anchors are positions,
"no key" is not a key, instants are integers (`MaxU64Assumption`,
`AnchorAssumption`, `KeyChainAssumption`, `CheckpointsAssumption`); `ConstantsOK`
of `Profiles` (`None` is neither a process, a server nor a key, and the keys of
flags and environment are not among those that are saved); `ConstantsOK` of
`InstanceCheck` (`None`, `Empty` and `Torn` are nothing else, corpus sizes and
thresholds are numbers);
`BuilderAssumption` (positions are naturals, the modes of an erase call are the
code's four, a hook is a name with two arguments); `PipelineAssumption` (no
journal comes near the last position there is, so positions do not wrap);
and `ConstantsOK` of `Clients`, which gathers those of its modules (`None` is
nothing else, bounds are numbers, there is a grant to begin with, captures with
one source and one text are one capture). `WaitsHonestly` assumes besides that
the command waits at least as long as its link is valid.

The readers' proofs have the same shape. `StepShape` says a step either only sets the
outcome (`QuietInv`) or accepts a line; `AcceptShape` (`ExtendShape`) says what
the sequences are afterwards; the invariant of the old lines carries over and
that of the new one follows from the guards.

* `ChainWalk`: `Inv` adds `RunningPair`, that (position, head) is the last pair
  of `heads`, or the anchor. Without it a link check says nothing about the
  heads kept. `SharedHistory` is proved beside it, by induction over steps:
  equal heads have equal terms (`HeadInjective`), hence equal last lines and
  equal heads before them, which are either kept heads, and agree by the
  hypothesis, or the start of a walk.
* `KeyChain`: `Inv` adds `LastLine` (last position and head are the last
  line's) and `Covered` (every event lies at or before the last position).
  `SealedAuthority` follows from `Inv`: `OneAuthority` shows that
  `key_at_position` chooses a single event. `AuthorityStable` follows since a
  new event lies beyond the last position.
* `Checkpoints`: `Inv` has `Ascending` instead of `BoundaryUnambiguous` and adds
  `RunningHead`; the former implies the latter since strictly ascending
  positions are distinct. `ClockReported` is proved on top of `Inv`: both sets
  grow by the same element when a line is accepted.
* `EvidencePipeline`: `PipelineInv` has three parts. `RecipeInv` is the type of
  recipes. `BuiltInv` says that the bundle under verification is `build` of the
  recipe. `PhaseInv` says what the verifier has behind it at each stage: what
  the readers hold of their files (`KeyInv`, `CheckpointInv`, `WalkInv`), which
  checks ended the run if they failed (`FilesInv`), and what the checks that
  only add findings found, if no finding so far blocks (`FindingsInv`). The last
  part must be conditional, since phase B goes on after a finding; and no part
  is an invariant without the one before it, since each stage reads with what
  the earlier ones established. `ClassifyClear` closes the circle: VALID means
  that no finding blocks (`Clear`), so every check passed (`ValidFacts`). From
  there the argument is about one bundle. Each member is what the builder wrote
  (`ValidMembers`), the keys remembered are those of the recipe
  (`KeysOfRecipe`), and the authority the verifier looks up is the signer the
  builder chose (`SignerAgrees`). `ContainedAlways` follows from the outcome of
  `classify_compromise` for each line (`CoveredBy`). For `UnalteredAlways` every
  hook that would change a record of the window is refuted by the check it would
  fail (`RecordUnhooked`): a forged link is not of the form of a head
  (`HeadBeforeForm`), which needs that the heads the builder chains exist
  (`HeadsExist`). Hence the journal with and without hooks has the same lines
  (`JournalLeft`), and so have the keys (`KeyRecordsLeft`). Content that is there
  was not erased, for its erasure would stand in the range (`ErasureInRange`);
  and as much is missing as the manifest counts as withheld, so nothing else is
  (`MissingContent`). There is no bound on the hooks a recipe queues.

  `HonestAlways` needs the converse, that no check has anything to report. Its
  invariant, `HonestInv`, follows an export that is honest but for what becomes
  of content (`HonestButContent`) step by step: at each stage the findings so far
  are known (`OnCourse`). It rests on `PipelineInv`, which says what was read.
  `HonestKeys`, `HonestCheckpoints`, `HonestEpoch`, `HonestClosure` and
  `HonestManifest` say what stands in each file, `KeyLineTaken`,
  `CheckpointTaken` and `RecordTaken` that no reader refuses a line of it, and
  there is a lemma per step. The withheld count agrees by a bijection between
  records and positions (`HonestWithheld`). Content that is dropped or kept is
  allowed in any number, which makes the end of the course (`Told`) stronger than
  the property: `AccountedAlways` says that outside anchors, clocks and an empty
  range the findings are exactly those of the content. `HonestAlways` is its case
  without any, `ErasureAlways` its case with one, which dominates since nothing
  else blocks (`ClassifyOne`). `ContentErased`, that only content is ever erased,
  is part of the invariant, for a count of mutations counts every erase call.
* `Profiles`: `IInv` adds to the properties what each step relies on later.
  `LockHeld` ties the lock to the steps between reading the file and replacing
  it, so at most one process is there; `FileFresh`, that a writer's copy is
  still the file, follows from it, and `OwnSignInOnly` from `FileFresh`.
  `FileHome` and `KeyHome` say that a key in the file, or in a process's hands,
  stands beside the server that issued it: neither is preserved without the
  other, since logins carry pairs into the file and asks out of it.
  `RevokedDead` remembers that a logout past its request holds a dead key, which
  gives `OnlyRevokedForgotten`. `OwnSession` does for saved conversations what
  `FileHome` does for keys. `LoginHome` says that what `login_server` found is
  still so, without an edit since, and gives `NeverMoved`. There is a lemma per
  action; `ExitInv`, `WriteInv` and `OneWriter` hold what several of them share.
* `InstanceCheck`: `Inv` adds to the types `Consistent`: the step a process is at
  says what its run holds (a comparison has both sides, a report is the
  comparison's). With it `EmptiedIsReported` is arithmetic about the two
  thresholds (`EverythingLost`). `IdentityInv` says that every identity in a map,
  of the files or in a process's hands, was observed at its URL; that holds with
  any overlap, since every map written was read or is one read with an entry
  replaced, and gives `NoFalseAlarm`. `AloneInv` holds for checks that do not
  overlap: the one under way owns the temp file, and what it is about to rename
  is the live file with one entry replaced (`OwnsTemp`). Then a rename that
  completes is a `SeenStore` step and every other step a stutter
  (`ImplementsStore`).
* `AskStream` (in `ClientsProofs`): `QuestionInv` says that while the stream is
  read the buffer holds the bytes between the last event handled and what has
  arrived (`Framed`), and that the events handled are the first ones of the
  feed (`InOrder`). A chunk extends the buffer
  at its end; a step of the loop removes exactly one event's bytes from its
  front (`FirstEvent`, `Left`).
* `EvidenceCommands` (in `ClientsProofs`): two chains with equal heads at a position hold the same
  records up to it (`SameHead`). A fork is reported at the lowest common position
  whose heads differ, which exists (`LowestExists`, by well-foundedness of the
  naturals); differing heads there show a differing record (`ForkShows`), and
  equal heads at the last common position show none (`ConsistentShares`).
* `McpConnector`: `IInv` is `RequestOK` (a request under way is of its tool, and
  nothing of it has been told yet), `KnowsOK` (a capture known as saved is at the
  server, or was edited or withdrawn since; one that is there is not held for
  unsaved) and `ToldOK` (the last answer is still so). `PutAt` says what a save
  leaves at the server, for every source.
* `Clients`: `HandlerSteps` shows that a step of the program is a step of one
  handler at most, and `HandlersAsAlone` that every run of the program is a run
  of each handler. The invariants are then proved once, against the handler's
  own next-state relation. `DraftInv` holds, besides the property, that as many
  drafts came as the round says (`CountOK`) and that the command holds the last
  one (`HeldOK`); `WaitInv` that while nobody has danced and nothing misled it
  the command holds the time of the grant there is (`BeforeOK`), and that it does
  not give up before `CONNECT_WAIT`; `ClaimsInv` rests on `DerivesHere`, that
  under every runner the derivation gives this repository or none; `LineInv` says
  that nothing is changed or said before the end, and `ReceiveInv` carries it
  through the handlers of one request. `EvidenceInv` says that what is compared
  was read and is a bundle, and that there is no outcome before the end.
  `TypeInv` adds to the types `DraftInv`, `EvidenceInv` and `QuestionInv`: the
  types of an answer, of an outcome and of the event handled next rest on them.
  `McpConnectorProofs` is about the connector's part of the state of `Clients`;
  its steps carry over, which gives `WhatIsSaidIsSo`.

Model-checked only: of the pipeline `HookIsReported`, the half of
`DeviationIsReported` that is about the builder's hooks (that none of those that
change the journal, its keys or its count gets VALID is `UnalteredAlways`; the
row each one gets is TLC's), and `VerifiersAgree`, whose second
verifier is folds over lines, that is, induction over data; and the liveness
properties `EventuallyVerdict`, `CommandEnds` and `QuestionAnswered`, which are
out of the prover's reach.

## Not modelled

* Byte formats: the ZIP profile (`container.rs` beyond its member table),
  strict JSON, PAE, hex and base64; Ed25519 and SHA-256 themselves; and the same
  parts of `verify_dbev.py`. The two verifiers are compared from the parsed
  lines on.
* Rendering of reports, tables and answers; `gen_vectors.rs`; the string rules
  of `repo.rs` and `redact.rs`, which have no state and table tests.
* The HTTP binding of `docbrain-mcp`: a table over one request, without state
  between requests.
* Of the sign-ins: the syntax of profile names, the steps inside a browser
  sign-in, `--session`. The server is not in the repository and is environment
  wherever it appears.
* Hooks of the builder that concern only JSON syntax (`with_record_raw_body`,
  raw anchor suffixes); `with_genesis_key_seed` appears only as the second
  genesis of `EvidenceCommands`.

## Plan

Done: the readers with proofs, builder, pipeline, both verifiers, composition;
sign-ins and instance check with proofs; the clients and the connector, composed,
with proofs. What would come next:

1. `LinkedLog`: an abstract append-only log (position, head) that `ChainWalk`,
   `KeyChain` and `Checkpoints` each implement under a refinement mapping.
2. A proof of `HookIsReported`, a hook at a time: up to the check that finds it
   the export is on the honest course, and `OnCourse` says what was found.
3. `McpHttp`: the decision table for modern, legacy and mismatched requests.
