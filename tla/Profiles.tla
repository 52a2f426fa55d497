------------------------------- MODULE Profiles -------------------------------
(***************************************************************************)
(* The sign-ins a `docbrain` user keeps in ~/.docbrain/config.json, and    *)
(* the processes that read and rewrite them at once: login, logout and     *)
(* ask (crates/docbrain-cli/src/main.rs).                                  *)
(*                                                                         *)
(* A server is a URL up to trailing slashes, a key is opaque, and a        *)
(* conversation is known by the identity (server and key) it belongs to.   *)
(* An absent profile is an entry with neither server nor key: every reader *)
(* refuses both alike.  Servers, and a user who edits the file by hand,    *)
(* are the environment.                                                    *)
(***************************************************************************)
CONSTANTS
  Process,             \* command lines that may run at once
  Profile,             \* named sign-ins
  Server, Key,         \* keys are issued by servers, each at most once
  DEFAULT_SERVER_URL,
  Default,             \* the sign-in at the top level of the file
  EnvKeys, FlagKeys,   \* what DOCBRAIN_API_KEY and --api-key may hold
  EnvServers,          \* what DOCBRAIN_SERVER_URL may hold
  None

ASSUME ConstantsOK ==
  /\ DEFAULT_SERVER_URL \in Server
  /\ EnvServers \subseteq Server
  /\ Default \notin Profile
  /\ None \notin Process \cup Server \cup Key \cup EnvKeys \cup FlagKeys
  /\ Key \cap (EnvKeys \cup FlagKeys) = {}

SignIn == Profile \cup {Default}
ProfileEntry == [server_url : Server \cup {None}, api_key : Key \cup {None}]
Unsaved == [server_url |-> None, api_key |-> None]
Credential == Key \cup EnvKeys \cup FlagKeys \cup {None}
Identity == [server : Server, key : Credential]

VARIABLES
  config,    \* the sign-ins in config.json
  readable,  \* does config.json parse?
  lock,      \* the process holding .config.lock
  run,       \* what each process is doing
  session,   \* the conversation saved for each identity
  issuer,    \* the server each key was issued by
  live,      \* the keys their servers accept
  edited     \* has the user edited the file since the lock was last taken? (history)

vars == <<config, readable, lock, run, session, issuer, live, edited>>

(* A process is at a step `at`, on behalf of a sign-in, with the one server *)
(* and key it resolved; a writer also holds the file as it last read it.   *)
Command(at, signin, server, key, continues) ==
  [at |-> at, signin |-> signin, server |-> server, key |-> key, file |-> None,
   continues |-> continues]

Idle == Command("idle", Default, None, None, None)

Init ==
  /\ config = [s \in SignIn |-> Unsaved]
  /\ readable = TRUE
  /\ lock = None
  /\ run = [p \in Process |-> Idle]
  /\ session = [i \in Identity |-> None]
  /\ issuer = [k \in Key |-> None]
  /\ live = {}
  /\ edited = FALSE

Or(a, b) == IF a # None THEN a ELSE b

(* An entry without a server stands for the default one.                   *)
SavedServer(e) == Or(e.server_url, DEFAULT_SERVER_URL)

----------------------------------------------------------------------------
(* What the commands decide from one reading of the file.                  *)

(* Mutant of login_server: a profile that saved no server signs in anyway. *)
login_server_unknown(s, override, env_server) ==
  LET saved == config[s]
  IN  IF s = Default
        THEN {Or(override, Or(env_server, SavedServer(saved)))}
        ELSE {url \in {Or(override, saved.server_url)} :
                saved.api_key # None => saved.server_url \in {None, url}}

(* Mutant of login_server: a profile that holds a key may be moved.        *)
login_server_moving(s, override, env_server) ==
  IF s = Default
    THEN {Or(override, Or(env_server, SavedServer(config[s])))}
    ELSE {Or(override, config[s].server_url)} \ {None}

(* The servers a login may sign in to: one, or none when it is refused.    *)
login_server(s, override, env_server) ==
  IF s = Default
    THEN {Or(override, Or(env_server, SavedServer(config[s])))}
    ELSE LET saved == config[s]
         IN  {url \in {Or(override, saved.server_url)} \ {None} :
                saved.api_key # None => saved.server_url \in {None, url}}

Target(server, key) == {[server |-> server, key |-> key]}

(* Mutant of resolve_target: the saved key follows DOCBRAIN_SERVER_URL.    *)
resolve_target_moved(s, flag_key, env_url, env_key) ==
  LET saved == config[s]
  IN  IF s # Default
        THEN IF flag_key # None \/ saved.server_url = None
               THEN {} ELSE Target(saved.server_url, saved.api_key)
        ELSE Target(Or(env_url, SavedServer(saved)), Or(flag_key, Or(saved.api_key, env_key)))

(* The pair a command speaks as, from one source: one, or none if refused. *)
resolve_target(s, flag_key, env_url, env_key) ==
  LET saved == config[s]
      elsewhere == Or(env_url, SavedServer(saved))
      moved == env_url # None /\ env_url # SavedServer(saved)
  IN  IF s # Default
        THEN IF flag_key # None \/ saved.server_url = None \/ moved
               THEN {} ELSE Target(saved.server_url, saved.api_key)
      ELSE IF flag_key # None THEN Target(elsewhere, flag_key)
      ELSE IF saved.api_key = None THEN Target(elsewhere, env_key)
      ELSE IF ~moved THEN Target(SavedServer(saved), saved.api_key)
      ELSE IF env_key # None THEN Target(env_url, env_key) ELSE {}

----------------------------------------------------------------------------
(* Processes.                                                              *)

At(p, step) == run[p].at = step
IdentityOf(p) == [server |-> run[p].server, key |-> run[p].key]

Exit(p) ==
  /\ run' = [run EXCEPT ![p] = Idle]
  /\ lock' = IF lock = p THEN None ELSE lock

(* Mutant of lock_config: the lock is shared.                              *)
lock_config_shared(p) == lock' = p

(* try_lock: a process that finds the lock taken exits at once.            *)
lock_config(p) == lock = None /\ lock' = p

Step(p, next) == run' = [run EXCEPT ![p] = next] /\ UNCHANGED lock

(* handle_login and handle_oauth_login up to the request for a key.        *)
handle_login(p, s, override, env_server) ==
  /\ At(p, "idle")
  /\ lock_config(p)
  /\ readable
  /\ \E url \in login_server(s, override, env_server) :
       run' = [run EXCEPT ![p] = Command("login", s, url, None, None)]
  /\ edited' = FALSE
  /\ UNCHANGED <<config, readable, session, issuer, live>>

KeyIssued(p, k) ==
  /\ At(p, "login")
  /\ issuer[k] = None
  /\ issuer' = [issuer EXCEPT ![k] = run[p].server]
  /\ live' = live \cup {k}
  /\ \/ Step(p, [run[p] EXCEPT !.at = "issued", !.key = k])
     \/ Exit(p)                                       \* the answer is lost
  /\ UNCHANGED <<config, readable, session, edited>>

(* read_config_strict before a rewrite: a file that does not parse ends it. *)
ReadAgain(p, before, after) ==
  /\ At(p, before)
  /\ IF readable
       THEN Step(p, [run[p] EXCEPT !.at = after, !.file = config])
       ELSE Exit(p)
  /\ UNCHANGED <<config, readable, session, issuer, live, edited>>

(* write_config: the new file replaces the old one whole.                  *)
write_config(p, file) ==
  /\ config' = file
  /\ readable' = TRUE
  /\ Exit(p)
  /\ UNCHANGED <<session, issuer, live, edited>>

save_login(p) ==
  /\ At(p, "save")
  /\ write_config(p, [run[p].file EXCEPT ![run[p].signin] =
                        [server_url |-> run[p].server, api_key |-> run[p].key]])

(* handle_logout up to the request that revokes the key.                   *)
handle_logout(p, s) ==
  /\ At(p, "idle")
  /\ lock_config(p)
  /\ readable
  /\ config[s].api_key # None
  /\ run' = [run EXCEPT ![p] = Command("logout", s, SavedServer(config[s]), config[s].api_key,
                                       None)]
  /\ edited' = FALSE
  /\ UNCHANGED <<config, readable, session, issuer, live>>

(* The server that issued the key revokes it; any server answers a key it  *)
(* does not accept with "Invalid or expired API key", which counts too.    *)
KeyRevoked(p) ==
  /\ At(p, "logout")
  /\ live' = IF issuer[run[p].key] = run[p].server THEN live \ {run[p].key} ELSE live
  /\ Step(p, [run[p] EXCEPT !.at = "revoked"]) \/ Exit(p)                    \* or the answer is lost
  /\ UNCHANGED <<config, readable, session, issuer, edited>>

(* Mutant of Cleared: whatever key the sign-in holds by now.               *)
ClearedUnseen(entry, key) == [entry EXCEPT !.api_key = None]

(* Only the key just revoked is cleared.                                   *)
Cleared(entry, key) ==
  IF entry.api_key = key THEN [entry EXCEPT !.api_key = None] ELSE entry

Forget(p) ==
  /\ At(p, "forget")
  /\ LET s == run[p].signin
         file == run[p].file
     IN  write_config(p, [file EXCEPT ![s] = Cleared(file[s], run[p].key)])

(* ask, from resolving its identity to sending the question.               *)
ask(p, s, flag_key, env_url, env_key, cont) ==
  /\ At(p, "idle")
  /\ readable
  /\ \E t \in resolve_target(s, flag_key, env_url, env_key) :
       Step(p, Command("ask", s, t.server, t.key, IF cont THEN session[t] ELSE None))
  /\ UNCHANGED <<config, readable, session, issuer, live, edited>>

Accepts(server, key) == key \in Key => key \in live /\ issuer[key] = server

(* Mutant of write_local_session: saved under what the file says by now.   *)
write_local_session_late(p) ==
  /\ At(p, "ask")
  /\ Accepts(run[p].server, run[p].key)
  /\ LET entry == config[run[p].signin]
     IN  session' = [session EXCEPT
           ![[server |-> SavedServer(entry), key |-> entry.api_key]] =
             Or(run[p].continues, IdentityOf(p))]
  /\ Exit(p)
  /\ UNCHANGED <<config, readable, issuer, live, edited>>

(* The answer names the conversation it belongs to, and that is saved.     *)
write_local_session(p) ==
  /\ At(p, "ask")
  /\ Accepts(run[p].server, run[p].key)
  /\ session' = [session EXCEPT ![IdentityOf(p)] = Or(run[p].continues, IdentityOf(p))]
  /\ Exit(p)
  /\ UNCHANGED <<config, readable, issuer, live, edited>>

(* Any error, refusal, failed write or kill: the file stays as it was, and *)
(* the system drops the lock with the process.                             *)
Fails(p) ==
  /\ ~At(p, "idle")
  /\ Exit(p)
  /\ UNCHANGED <<config, readable, session, issuer, live, edited>>

----------------------------------------------------------------------------
(* The environment.                                                        *)

(* A key expires or is revoked somewhere else.                             *)
Expire(k) ==
  /\ k \in live
  /\ live' = live \ {k}
  /\ UNCHANGED <<config, readable, lock, run, session, issuer, edited>>

Writing == \E p \in Process : run[p].at \in {"save", "forget"}

(* The user edits the file by hand: pastes a key with its server, leaves   *)
(* the file unparseable, or removes it.  A hand edit takes no lock; one in *)
(* the instant between a writer's reading and its rename is left out.      *)
Edit ==
  /\ ~Writing
  /\ \/ /\ readable /\ UNCHANGED readable
        /\ \E s \in SignIn, k \in Key, url \in Server :
             /\ issuer[k] = None
             /\ issuer' = [issuer EXCEPT ![k] = url]
             /\ live' = live \cup {k}
             /\ config' = [config EXCEPT ![s] = [server_url |-> url, api_key |-> k]]
     \/ readable' = FALSE /\ UNCHANGED <<config, issuer, live>>
     \/ /\ config' = [s \in SignIn |-> Unsaved] /\ readable' = TRUE
        /\ UNCHANGED <<issuer, live>>
  /\ edited' = TRUE
  /\ UNCHANGED <<lock, run, session>>

Commands(p) ==
  \/ \E s \in SignIn, override \in Server \cup {None}, env \in EnvServers \cup {None} :
       handle_login(p, s, override, env)
  \/ \E k \in Key : KeyIssued(p, k)
  \/ ReadAgain(p, "issued", "save")
  \/ save_login(p)
  \/ \E s \in SignIn : handle_logout(p, s)
  \/ KeyRevoked(p)
  \/ ReadAgain(p, "revoked", "forget")
  \/ Forget(p)
  \/ \E s \in SignIn, flag_key \in FlagKeys \cup {None}, env_url \in EnvServers \cup {None},
        env_key \in EnvKeys \cup {None}, cont \in BOOLEAN :
       ask(p, s, flag_key, env_url, env_key, cont)
  \/ write_local_session(p)
  \/ Fails(p)

Next == (\E p \in Process : Commands(p)) \/ (\E k \in Key : Expire(k)) \/ Edit

Spec == Init /\ [][Next]_vars

----------------------------------------------------------------------------
Steps == {"idle", "login", "issued", "save", "logout", "revoked", "forget", "ask"}

Run == [at : Steps, signin : SignIn, server : Server \cup {None}, key : Credential,
        file : [SignIn -> ProfileEntry] \cup {None}, continues : Identity \cup {None}]

TypeOK ==
  /\ config \in [SignIn -> ProfileEntry]
  /\ readable \in BOOLEAN
  /\ lock \in Process \cup {None}
  /\ run \in [Process -> Run]
  /\ \A p \in Process : ~At(p, "idle") => run[p].server \in Server
  /\ session \in [Identity -> Identity \cup {None}]
  /\ issuer \in [Key -> Server \cup {None}]
  /\ live \subseteq Key
  /\ edited \in BOOLEAN

(* One pair, always from one source: a key some server issued is presented *)
(* to that server and to no other, whatever the profile, the flag, the     *)
(* environment, the file's later edits or a login's change of server say   *)
(* (resolve_target, login_server, handle_logout).                          *)
SavedKeyGoesHome ==
  \A p \in Process :
    run[p].at \in {"logout", "revoked", "ask"} /\ run[p].key \in Key =>
      issuer[run[p].key] = run[p].server

(* A saved conversation is continued only by the identity it belongs to,   *)
(* though a login may have changed the sign-in since (ACTIVE_IDENTITY,     *)
(* identity_tag, session_for_ask).                                         *)
OwnConversation ==
  \A p \in Process :
    At(p, "ask") =>
      run[p].continues \in {None, [server |-> run[p].server, key |-> run[p].key]}

(* Two logins or logouts at once cannot drop each other's update: a        *)
(* command that rewrites the file changes the entry of its own sign-in and *)
(* no other, and never replaces a file that did not parse (lock_config,    *)
(* read_config_strict, save_login).                                        *)
OwnSignInOnly ==
  [][config' # config \/ readable' # readable =>
       \/ Edit
       \/ /\ readable /\ readable'
          /\ \E p \in Process :
               /\ run[p].at \in {"save", "forget"}
               /\ \A s \in SignIn \ {run[p].signin} : config'[s] = config[s]]_vars

(* A profile that still holds a key is not moved to another server, unless *)
(* the user edits the file meanwhile: no login is about to save a named    *)
(* profile's key for one server over a key for another, not even the       *)
(* second of two logins that both found the profile new (login_server and  *)
(* save_login under one lock).                                             *)
Moves(p) ==
  /\ At(p, "save") /\ run[p].signin \in Profile
  /\ LET saved == config[run[p].signin]
     IN  saved.api_key # None /\ saved.server_url # run[p].server

NeverMoved == \A p \in Process : Moves(p) => edited

(* A logout forgets a key only once no server accepts it: not after a lost *)
(* answer, not a key pasted while the request was under way, not a key     *)
(* another server was asked to revoke (handle_logout).                     *)
OnlyRevokedForgotten ==
  [][\A s \in SignIn :
       config[s].api_key # None /\ config'[s].api_key = None =>
         config[s].api_key \notin live \/ Edit]_vars
=============================================================================
