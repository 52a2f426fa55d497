---------------------------- MODULE ProfilesProofs ----------------------------
(***************************************************************************)
(* Theorems about the sign-ins, for any number of processes, profiles,     *)
(* servers and keys.                                                       *)
(***************************************************************************)
EXTENDS Profiles, TLAPS

Locking == {"login", "issued", "save", "logout", "revoked", "forget"}

(* The lock is held from reading the file to replacing it.                 *)
LockHeld == \A p \in Process : lock = p <=> run[p].at \in Locking

(* A writer's copy of the file is the file.                                *)
FileFresh ==
  \A p \in Process : run[p].at \in {"save", "forget"} => run[p].file = config /\ readable

(* A saved key is saved with the server that issued it.                    *)
FileHome ==
  \A s \in SignIn :
    config[s].api_key # None =>
      /\ config[s].server_url \in Server
      /\ issuer[config[s].api_key] = config[s].server_url

(* So is the key a process carries.                                        *)
KeyHome ==
  \A p \in Process :
    /\ run[p].at \in Locking \ {"login"} =>
         run[p].key \in Key /\ issuer[run[p].key] = run[p].server
    /\ At(p, "ask") /\ run[p].key \in Key => issuer[run[p].key] = run[p].server

(* A key a logout goes on to clear is dead.                                *)
RevokedDead ==
  \A p \in Process : run[p].at \in {"revoked", "forget"} => run[p].key \notin live

OwnSession == \A i \in Identity : session[i] \in {None, i}

(* Without a hand edit since, what login_server found is still so.         *)
LoginHome ==
  ~edited =>
    \A p \in Process :
      run[p].at \in {"login", "issued", "save"} /\ run[p].signin \in Profile =>
        LET saved == config[run[p].signin]
        IN  saved.api_key # None => saved.server_url = run[p].server

IInv ==
  /\ TypeOK /\ LockHeld /\ FileFresh /\ FileHome /\ KeyHome
  /\ RevokedDead /\ OwnSession /\ OwnConversation /\ LoginHome

LEMMA InitInv == Init => IInv
<1> SUFFICES ASSUME Init PROVE IInv
  OBVIOUS
<1>1. Idle \in Run /\ \A p \in Process : run[p] = Idle
  BY DEF Init, Idle, Command, Run, SignIn, Credential, Steps
<1>2. TypeOK
  BY <1>1 DEF Init, TypeOK, Unsaved, ProfileEntry, At, Idle, Command
<1>3. FileHome /\ OwnSession
  BY DEF Init, FileHome, OwnSession, Unsaved
<1>4. LockHeld
  BY <1>1, ConstantsOK DEF Init, LockHeld, Idle, Command, Locking
<1>5. FileFresh /\ KeyHome /\ RevokedDead /\ OwnConversation /\ LoginHome
  BY <1>1 DEF Init, FileFresh, KeyHome, RevokedDead, OwnConversation, LoginHome,
              Idle, Command, Locking, At
<1>6. QED
  BY <1>2, <1>3, <1>4, <1>5 DEF IInv

(* One process moves on and the others stay where they are.                *)
LEMMA OneMoves ==
  ASSUME IInv, NEW p \in Process, NEW r \in Run, run' = [run EXCEPT ![p] = r]
  PROVE  /\ run' \in [Process -> Run]
         /\ run'[p] = r
         /\ \A q \in Process \ {p} : run'[q] = run[q]
BY DEF IInv, TypeOK

LEMMA IdleRun ==
  /\ Idle \in Run
  /\ Idle.at = "idle"
BY DEF Idle, Command, Run, SignIn, Credential, Steps

(* A process that ends keeps every part of the invariant.                  *)
LEMMA ExitInv ==
  ASSUME IInv, NEW p \in Process, Exit(p),
         UNCHANGED <<config, readable, session, issuer, live, edited>>
  PROVE  IInv'
<1>1. /\ run' \in [Process -> Run]
      /\ run'[p] = Idle
      /\ \A q \in Process \ {p} : run'[q] = run[q]
  BY OneMoves, IdleRun DEF Exit
<1>2. TypeOK'
  BY <1>1, IdleRun DEF IInv, TypeOK, Exit, At
<1>3. LockHeld'
  BY <1>1, IdleRun, ConstantsOK DEF IInv, LockHeld, Exit, Locking, TypeOK
<1>4. (FileFresh /\ FileHome /\ KeyHome /\ RevokedDead /\ OwnSession)'
  BY <1>1, IdleRun DEF IInv, FileFresh, FileHome, KeyHome, RevokedDead, OwnSession, Locking, At
<1>5. (OwnConversation /\ LoginHome)'
  BY <1>1, IdleRun DEF IInv, OwnConversation, LoginHome, At
<1>6. QED
  BY <1>2, <1>3, <1>4, <1>5 DEF IInv

(* A login starts on a server that its profile's key, if any, was saved    *)
(* for.                                                                    *)
LEMMA LoginInv ==
  ASSUME IInv, NEW p \in Process, NEW s \in SignIn, NEW override \in Server \cup {None},
         NEW env \in EnvServers \cup {None}, handle_login(p, s, override, env)
  PROVE  IInv'
<1>1. PICK url \in login_server(s, override, env) :
        run' = [run EXCEPT ![p] = Command("login", s, url, None, None)]
  BY DEF handle_login
<1>2. url \in Server
  BY ConstantsOK DEF login_server, IInv, TypeOK, ProfileEntry, SignIn, Or, SavedServer
<1>3. s \in Profile /\ config[s].api_key # None => config[s].server_url = url
  BY ConstantsOK DEF login_server, IInv, FileHome, SignIn
<1>4. Command("login", s, url, None, None) \in Run
  BY <1>2 DEF Command, Run, Steps, Credential
<1>5. /\ run' \in [Process -> Run]
      /\ run'[p].at = "login" /\ run'[p].signin = s /\ run'[p].server = url
      /\ \A q \in Process \ {p} : run'[q] = run[q]
      /\ lock = None /\ lock' = p
      /\ edited' = FALSE
      /\ UNCHANGED <<config, readable, session, issuer, live>>
  BY <1>1, <1>4, OneMoves DEF Command, handle_login, lock_config
<1>6. TypeOK'
  BY <1>2, <1>5 DEF IInv, TypeOK, At
<1>7. LockHeld'
  BY <1>5, ConstantsOK DEF IInv, LockHeld, Locking
<1>8. (FileFresh /\ FileHome /\ KeyHome /\ RevokedDead /\ OwnSession)'
  BY <1>5 DEF IInv, FileFresh, FileHome, KeyHome, RevokedDead, OwnSession, Locking, At
<1>9. OwnConversation'
  BY <1>5 DEF IInv, OwnConversation, At
<1>10. \A q \in Process \ {p} : run'[q].at \notin Locking
  BY <1>5, ConstantsOK DEF IInv, LockHeld
<1>11. LoginHome'
  BY <1>3, <1>5, <1>10 DEF LoginHome, Locking
<1>12. QED
  BY <1>6, <1>7, <1>8, <1>9, <1>11 DEF IInv

(* A key is issued once, so no key already known changes hands.            *)
LEMMA IssueInv ==
  ASSUME IInv, NEW p \in Process, NEW k \in Key, KeyIssued(p, k)
  PROVE  IInv'
<1>1. /\ run[p].at = "login" /\ issuer[k] = None /\ run[p].server \in Server
      /\ issuer' = [issuer EXCEPT ![k] = run[p].server]
      /\ live' = live \cup {k}
      /\ UNCHANGED <<config, readable, session, edited>>
  BY DEF KeyIssued, IInv, TypeOK, At
<1>2. [run[p] EXCEPT !.at = "issued", !.key = k] \in Run
  BY DEF IInv, TypeOK, Run, Steps, Credential
<1>3. /\ run' \in [Process -> Run]
      /\ \A q \in Process \ {p} : run'[q] = run[q]
      /\ \/ /\ run'[p].at = "issued" /\ run'[p].key = k
            /\ run'[p].server = run[p].server /\ run'[p].signin = run[p].signin
            /\ UNCHANGED lock
         \/ run'[p].at = "idle" /\ lock' = IF lock = p THEN None ELSE lock
  <2>1. CASE Step(p, [run[p] EXCEPT !.at = "issued", !.key = k])
    <3>1. run[p] \in Run
      BY DEF IInv, TypeOK
    <3>2. QED
      BY <1>2, <2>1, <3>1, OneMoves DEF Step, Run
  <2>2. CASE Exit(p)
    <3>1. /\ run' \in [Process -> Run]
          /\ run'[p] = Idle
          /\ \A q \in Process \ {p} : run'[q] = run[q]
      BY <2>2, OneMoves, IdleRun DEF Exit
    <3>2. QED
      BY <2>2, <3>1, IdleRun DEF Exit
  <2>3. QED
    BY <2>1, <2>2 DEF KeyIssued
<1>4. TypeOK'
  BY <1>1, <1>3 DEF IInv, TypeOK, At
<1>5. LockHeld'
  BY <1>1, <1>3, ConstantsOK DEF IInv, LockHeld, Locking, TypeOK
<1>6. \A j \in Key : issuer[j] # None => issuer'[j] = issuer[j]
  BY <1>1 DEF IInv, TypeOK
<1>7. FileHome'
  BY <1>1, <1>6, ConstantsOK DEF IInv, FileHome, TypeOK, ProfileEntry
<1>8. \A q \in Process : run[q].at # "idle" => run[q].server # None
  BY ConstantsOK DEF IInv, TypeOK, At
<1>9. issuer'[k] = run[p].server
  BY <1>1 DEF IInv, TypeOK
<1>10. KeyHome'
  BY <1>1, <1>3, <1>6, <1>8, <1>9 DEF IInv, KeyHome, Locking, At
<1>11. RevokedDead'
  BY <1>1, <1>3, <1>8 DEF IInv, RevokedDead, KeyHome, Locking
<1>12. (FileFresh /\ OwnSession /\ OwnConversation /\ LoginHome)'
  BY <1>1, <1>3 DEF IInv, FileFresh, OwnSession, OwnConversation, LoginHome, At
<1>13. QED
  BY <1>4, <1>5, <1>7, <1>10, <1>11, <1>12 DEF IInv

(* A writer reads the file again, and from then on nobody else writes it.  *)
LEMMA ReadInv ==
  ASSUME IInv, NEW p \in Process, NEW before, NEW after, ReadAgain(p, before, after),
         \/ before = "issued" /\ after = "save"
         \/ before = "revoked" /\ after = "forget"
  PROVE  IInv'
<1>1. CASE ~readable
  BY <1>1, ExitInv DEF ReadAgain
<1>2. CASE readable
  <2>1. run[p] \in Run /\ config \in [SignIn -> ProfileEntry]
    BY DEF IInv, TypeOK
  <2> DEFINE r == [run[p] EXCEPT !.at = after, !.file = config]
  <2>2. /\ r \in Run
        /\ r.at = after /\ r.file = config /\ r.signin = run[p].signin
        /\ r.server = run[p].server /\ r.key = run[p].key
    BY <2>1 DEF Run, Steps
  <2>3. run' \in [Process -> Run] /\ run'[p] = r /\ \A q \in Process \ {p} : run'[q] = run[q]
    BY <1>2, <2>2, OneMoves DEF ReadAgain, Step
  <2>4. /\ run' \in [Process -> Run]
        /\ run[p].at = before /\ run'[p].at = after /\ run'[p].file = config
        /\ run'[p].signin = run[p].signin /\ run'[p].server = run[p].server
        /\ run'[p].key = run[p].key
        /\ \A q \in Process \ {p} : run'[q] = run[q]
        /\ UNCHANGED <<config, readable, lock, session, issuer, live, edited>>
    BY <1>2, <2>2, <2>3 DEF ReadAgain, Step, At
  <2>5. TypeOK'
    BY <2>4 DEF IInv, TypeOK, At
  <2>6. (LockHeld /\ FileFresh /\ FileHome /\ KeyHome)'
    BY <1>2, <2>4 DEF IInv, LockHeld, FileFresh, FileHome, KeyHome, Locking, At
  <2>7. (RevokedDead /\ OwnSession /\ OwnConversation /\ LoginHome)'
    BY <2>4 DEF IInv, RevokedDead, OwnSession, OwnConversation, LoginHome, At
  <2>8. QED
    BY <2>5, <2>6, <2>7 DEF IInv
<1>3. QED
  BY <1>1, <1>2

(* Only the process that holds the lock writes, so nobody else is about to. *)
LEMMA OneWriter ==
  ASSUME IInv, NEW p \in Process, NEW q \in Process \ {p},
         run[p].at \in Locking
  PROVE  run[q].at \notin Locking
BY DEF IInv, LockHeld

(* What the two writers put in the file, entry by entry.                   *)
LEMMA SaveWrites ==
  ASSUME IInv, NEW p \in Process, save_login(p)
  PROVE  /\ run[p].at = "save" /\ run[p].signin \in SignIn
         /\ config' \in [SignIn -> ProfileEntry]
         /\ config'[run[p].signin].server_url = run[p].server
         /\ config'[run[p].signin].api_key = run[p].key
         /\ \A s \in SignIn \ {run[p].signin} : config'[s] = config[s]
         /\ readable /\ readable'
         /\ Exit(p) /\ UNCHANGED <<session, issuer, live, edited>>
<1>1. /\ run[p].at = "save" /\ run[p].file = config /\ readable
      /\ run[p].key \in Key /\ run[p].server \in Server
  BY DEF save_login, At, IInv, TypeOK, FileFresh, KeyHome, Locking
<1>2. config \in [SignIn -> ProfileEntry] /\ run[p].signin \in SignIn
  BY DEF IInv, TypeOK, Run
<1>3. [server_url |-> run[p].server, api_key |-> run[p].key] \in ProfileEntry
  BY <1>1 DEF ProfileEntry
<1>4. QED
  BY <1>1, <1>2, <1>3 DEF save_login, write_config

LEMMA ForgetWrites ==
  ASSUME IInv, NEW p \in Process, Forget(p)
  PROVE  /\ run[p].at = "forget" /\ run[p].signin \in SignIn
         /\ config' \in [SignIn -> ProfileEntry]
         /\ config'[run[p].signin] = Cleared(config[run[p].signin], run[p].key)
         /\ \A s \in SignIn \ {run[p].signin} : config'[s] = config[s]
         /\ readable /\ readable'
         /\ Exit(p) /\ UNCHANGED <<session, issuer, live, edited>>
<1>1. run[p].at = "forget" /\ run[p].file = config /\ readable
  BY DEF Forget, At, IInv, FileFresh
<1>2. config \in [SignIn -> ProfileEntry] /\ run[p].signin \in SignIn
  BY DEF IInv, TypeOK, Run
<1>3. Cleared(config[run[p].signin], run[p].key) \in ProfileEntry
  BY <1>2 DEF Cleared, ProfileEntry
<1>4. QED
  BY <1>1, <1>2, <1>3 DEF Forget, write_config

(* Replacing the file keeps the invariant when the new entry holds a key   *)
(* saved with its server, or none, and its writer ends.                    *)
LEMMA WriteInv ==
  ASSUME IInv, NEW p \in Process, run[p].at \in {"save", "forget"},
         run[p].signin \in SignIn, config' \in [SignIn -> ProfileEntry],
         \A s \in SignIn \ {run[p].signin} : config'[s] = config[s],
         readable', Exit(p), UNCHANGED <<session, issuer, live, edited>>,
         LET e == config'[run[p].signin]
         IN  e.api_key # None => e.server_url \in Server /\ issuer[e.api_key] = e.server_url
  PROVE  IInv'
<1>1. /\ run' \in [Process -> Run]
      /\ run'[p] = Idle
      /\ \A q \in Process \ {p} : run'[q] = run[q]
  BY OneMoves, IdleRun DEF Exit
<1>2. \A q \in Process : run'[q].at \notin Locking
  BY <1>1, IdleRun, OneWriter DEF Locking
<1>3. TypeOK'
  BY <1>1, IdleRun DEF IInv, TypeOK, Exit, At
<1>4. LockHeld'
  BY <1>1, <1>2, IdleRun, ConstantsOK DEF IInv, LockHeld, Exit, Locking, TypeOK
<1>5. (FileFresh /\ RevokedDead /\ LoginHome)'
  BY <1>2 DEF FileFresh, RevokedDead, LoginHome, Locking
<1>6. (FileHome /\ KeyHome /\ OwnSession)'
  BY <1>1, <1>2, IdleRun DEF IInv, FileHome, KeyHome, OwnSession, At
<1>7. OwnConversation'
  BY <1>1, IdleRun DEF IInv, OwnConversation, At
<1>8. QED
  BY <1>3, <1>4, <1>5, <1>6, <1>7 DEF IInv

LEMMA SaveInv ==
  ASSUME IInv, NEW p \in Process, save_login(p)
  PROVE  IInv'
<1>1. run[p].server \in Server /\ issuer[run[p].key] = run[p].server
  BY SaveWrites DEF IInv, TypeOK, KeyHome, Locking, At
<1> DEFINE e == config'[run[p].signin]
<1>2. e.server_url = run[p].server /\ e.api_key = run[p].key
  BY SaveWrites
<1>3. e.api_key # None => e.server_url \in Server /\ issuer[e.api_key] = e.server_url
  BY <1>1, <1>2
<1>4. /\ run[p].at = "save" /\ run[p].signin \in SignIn
      /\ config' \in [SignIn -> ProfileEntry]
      /\ \A s \in SignIn \ {run[p].signin} : config'[s] = config[s]
      /\ readable' /\ Exit(p) /\ UNCHANGED <<session, issuer, live, edited>>
  BY SaveWrites
<1>5. QED
  BY <1>3, <1>4, WriteInv

LEMMA ForgetInv ==
  ASSUME IInv, NEW p \in Process, Forget(p)
  PROVE  IInv'
<1> DEFINE e == config'[run[p].signin]
<1>1. e.api_key # None => e.server_url \in Server /\ issuer[e.api_key] = e.server_url
  BY ForgetWrites DEF Cleared, IInv, FileHome, TypeOK, ProfileEntry
<1>2. QED
  BY <1>1, ForgetWrites, WriteInv

(* A logout presents a key to the server it was saved with.                *)
LEMMA LogoutInv ==
  ASSUME IInv, NEW p \in Process, NEW s \in SignIn, handle_logout(p, s)
  PROVE  IInv'
<1> DEFINE k == config[s].api_key
           r == Command("logout", s, SavedServer(config[s]), k, None)
<1>1. /\ k \in Key /\ SavedServer(config[s]) \in Server
      /\ issuer[k] = SavedServer(config[s])
  BY ConstantsOK DEF handle_logout, IInv, TypeOK, FileHome, ProfileEntry, SavedServer, Or
<1>2. /\ r \in Run
      /\ r.at = "logout" /\ r.server = SavedServer(config[s]) /\ r.key = k
  BY <1>1 DEF Command, Run, Steps, Credential
<1>3. run' \in [Process -> Run] /\ run'[p] = r /\ \A q \in Process \ {p} : run'[q] = run[q]
  BY <1>2, OneMoves DEF handle_logout
<1>4. /\ lock = None /\ lock' = p
      /\ edited' = FALSE
      /\ UNCHANGED <<config, readable, session, issuer, live>>
  BY DEF handle_logout, lock_config
<1>5. TypeOK'
  BY <1>1, <1>2, <1>3, <1>4 DEF IInv, TypeOK, At
<1>6. LockHeld'
  BY <1>2, <1>3, <1>4, ConstantsOK DEF IInv, LockHeld, Locking
<1>7. KeyHome'
  BY <1>1, <1>2, <1>3, <1>4 DEF IInv, KeyHome, Locking, At
<1>8. (FileFresh /\ FileHome /\ RevokedDead /\ OwnSession)'
  BY <1>2, <1>3, <1>4 DEF IInv, FileFresh, FileHome, RevokedDead, OwnSession
<1>9. OwnConversation'
  BY <1>2, <1>3, <1>4 DEF IInv, OwnConversation, At
<1>10. \A q \in Process \ {p} : run'[q].at \notin Locking
  BY <1>3, <1>4, ConstantsOK DEF IInv, LockHeld
<1>11. LoginHome'
  BY <1>2, <1>3, <1>10 DEF LoginHome, Locking
<1>12. QED
  BY <1>5, <1>6, <1>7, <1>8, <1>9, <1>11 DEF IInv

(* Whatever becomes of the request, live keys only get fewer.              *)
LEMMA FewerLive ==
  ASSUME IInv, live' \subseteq live, UNCHANGED <<config, readable, lock, run, session, issuer, edited>>
  PROVE  IInv'
BY DEF IInv, TypeOK, LockHeld, FileFresh, FileHome, KeyHome, RevokedDead, OwnSession,
       OwnConversation, LoginHome, At

(* The key is dead when the server says so, because it is the server that  *)
(* issued it.                                                              *)
LEMMA RevokeInv ==
  ASSUME IInv, NEW p \in Process, KeyRevoked(p)
  PROVE  IInv'
<1> DEFINE r == [run[p] EXCEPT !.at = "revoked"]
<1>1. /\ run[p].at = "logout" /\ run[p] \in Run
      /\ issuer[run[p].key] = run[p].server
      /\ live' = live \ {run[p].key}
      /\ UNCHANGED <<config, readable, session, issuer, edited>>
  BY DEF KeyRevoked, At, IInv, TypeOK, KeyHome, Locking
<1>2. /\ r \in Run
      /\ r.at = "revoked" /\ r.server = run[p].server /\ r.key = run[p].key
      /\ r.signin = run[p].signin
  BY <1>1 DEF Run, Steps
<1>3. /\ run' \in [Process -> Run]
      /\ \A q \in Process \ {p} : run'[q] = run[q]
      /\ \/ run'[p] = r /\ lock' = lock
         \/ run'[p] = Idle /\ lock' = IF lock = p THEN None ELSE lock
  <2>1. CASE Step(p, r)
    BY <1>2, <2>1, OneMoves DEF Step
  <2>2. CASE Exit(p)
    BY <2>2, OneMoves, IdleRun DEF Exit
  <2>3. QED
    BY <2>1, <2>2 DEF KeyRevoked
<1>4. TypeOK'
  BY <1>1, <1>2, <1>3, IdleRun DEF IInv, TypeOK, At
<1>5. LockHeld'
  BY <1>1, <1>2, <1>3, IdleRun, ConstantsOK DEF IInv, LockHeld, Locking, TypeOK
<1>6. KeyHome'
  BY <1>1, <1>2, <1>3, IdleRun DEF IInv, KeyHome, Locking, At
<1>7. (FileFresh /\ FileHome /\ OwnSession)'
  BY <1>1, <1>2, <1>3, IdleRun DEF IInv, FileFresh, FileHome, OwnSession
<1>8. RevokedDead'
  BY <1>1, <1>2, <1>3, IdleRun DEF IInv, RevokedDead
<1>9. (OwnConversation /\ LoginHome)'
  BY <1>1, <1>2, <1>3, IdleRun DEF IInv, OwnConversation, LoginHome, At
<1>10. QED
  BY <1>4, <1>5, <1>6, <1>7, <1>8, <1>9 DEF IInv
(* Every way to resolve a pair that yields a key from the file yields the  *)
(* server it was saved with.                                               *)
LEMMA ResolveHome ==
  ASSUME IInv, NEW s \in SignIn, NEW flag_key \in FlagKeys \cup {None},
         NEW env_url \in EnvServers \cup {None}, NEW env_key \in EnvKeys \cup {None},
         NEW t \in resolve_target(s, flag_key, env_url, env_key)
  PROVE  /\ t = [server |-> t.server, key |-> t.key]
         /\ t.server \in Server /\ t.key \in Credential
         /\ t.key \in Key => issuer[t.key] = t.server
<1> DEFINE saved == config[s]
<1>1. saved \in ProfileEntry /\ SavedServer(saved) \in Server
  BY ConstantsOK DEF IInv, TypeOK, SavedServer, Or, ProfileEntry
<1>2. Or(env_url, SavedServer(saved)) \in Server
  BY <1>1, ConstantsOK DEF Or
<1>3. saved.api_key # None =>
        SavedServer(saved) = saved.server_url /\ issuer[saved.api_key] = saved.server_url
  BY ConstantsOK DEF IInv, FileHome, SavedServer, Or
<1>4. \/ t \in Target(saved.server_url, saved.api_key) /\ saved.server_url # None
      \/ t \in Target(Or(env_url, SavedServer(saved)), flag_key) /\ flag_key # None
      \/ t \in Target(Or(env_url, SavedServer(saved)), env_key)
      \/ t \in Target(SavedServer(saved), saved.api_key)
      \/ t \in Target(env_url, env_key) /\ env_url # None
  BY DEF resolve_target
<1>5. QED
  BY <1>1, <1>2, <1>3, <1>4, ConstantsOK DEF Target, Credential, ProfileEntry

LEMMA AskInv ==
  ASSUME IInv, NEW p \in Process, NEW s \in SignIn, NEW flag_key \in FlagKeys \cup {None},
         NEW env_url \in EnvServers \cup {None}, NEW env_key \in EnvKeys \cup {None},
         NEW cont \in BOOLEAN, ask(p, s, flag_key, env_url, env_key, cont)
  PROVE  IInv'
<1>1. PICK t \in resolve_target(s, flag_key, env_url, env_key) :
        Step(p, Command("ask", s, t.server, t.key, IF cont THEN session[t] ELSE None))
  BY DEF ask
<1> DEFINE c == IF cont THEN session[t] ELSE None
           r == Command("ask", s, t.server, t.key, c)
<1>2. /\ t = [server |-> t.server, key |-> t.key] /\ t \in Identity
      /\ t.server \in Server /\ t.key \in Credential
      /\ t.key \in Key => issuer[t.key] = t.server
  BY ResolveHome DEF Identity
<1>3. c \in {None, t}
  BY <1>2 DEF IInv, OwnSession
<1>4. /\ r \in Run
      /\ r.at = "ask" /\ r.server = t.server /\ r.key = t.key /\ r.continues = c
  BY <1>2, <1>3 DEF Command, Run, Steps
<1>5. /\ run' \in [Process -> Run] /\ run'[p] = r
      /\ \A q \in Process \ {p} : run'[q] = run[q]
      /\ run[p].at = "idle"
      /\ UNCHANGED <<config, readable, lock, session, issuer, live, edited>>
  BY <1>1, <1>4, OneMoves DEF Step, ask, At
<1>6. TypeOK'
  BY <1>2, <1>4, <1>5 DEF IInv, TypeOK, At
<1>7. (LockHeld /\ FileFresh /\ FileHome /\ RevokedDead /\ OwnSession /\ LoginHome)'
  BY <1>4, <1>5 DEF IInv, LockHeld, FileFresh, FileHome, RevokedDead, OwnSession, LoginHome,
                    Locking
<1>8. KeyHome'
  BY <1>2, <1>4, <1>5 DEF IInv, KeyHome, Locking, At
<1>9. OwnConversation'
  BY <1>2, <1>3, <1>4, <1>5 DEF IInv, OwnConversation, At
<1>10. QED
  BY <1>6, <1>7, <1>8, <1>9 DEF IInv

(* The conversation saved for an identity is its own.                      *)
LEMMA AnswerInv ==
  ASSUME IInv, NEW p \in Process, write_local_session(p)
  PROVE  IInv'
<1> DEFINE i == IdentityOf(p)
<1>1. /\ run[p].at = "ask" /\ run[p] \in Run /\ run[p].server \in Server
      /\ run[p].continues \in {None, i}
  BY DEF write_local_session, At, IInv, TypeOK, OwnConversation, IdentityOf
<1>2. i \in Identity
  BY <1>1 DEF IdentityOf, Identity, Run
<1>3. /\ session' = [session EXCEPT ![i] = i]
      /\ Exit(p) /\ UNCHANGED <<config, readable, issuer, live, edited>>
  BY <1>1 DEF write_local_session, Or
<1>4. /\ run' \in [Process -> Run] /\ run'[p] = Idle
      /\ \A q \in Process \ {p} : run'[q] = run[q]
  BY <1>3, OneMoves, IdleRun DEF Exit
<1>5. session' \in [Identity -> Identity \cup {None}] /\ OwnSession'
  BY <1>2, <1>3 DEF IInv, TypeOK, OwnSession
<1>6. TypeOK'
  BY <1>3, <1>4, <1>5, IdleRun DEF IInv, TypeOK, Exit, At
<1>7. LockHeld'
  BY <1>1, <1>3, <1>4, IdleRun, ConstantsOK DEF IInv, LockHeld, Exit, Locking, TypeOK
<1>8. (FileFresh /\ FileHome /\ KeyHome /\ RevokedDead /\ OwnConversation /\ LoginHome)'
  BY <1>3, <1>4, IdleRun DEF IInv, FileFresh, FileHome, KeyHome, RevokedDead, OwnConversation,
                             LoginHome, Locking, At
<1>9. QED
  BY <1>5, <1>6, <1>7, <1>8 DEF IInv

(* A hand edit meets no writer.                                            *)
LEMMA EditInv ==
  ASSUME IInv, Edit
  PROVE  IInv'
<1>1. /\ \A p \in Process : run[p].at \notin {"save", "forget"}
      /\ edited' = TRUE
      /\ UNCHANGED <<lock, run, session>>
  BY ConstantsOK DEF Edit, Writing, At
<1>2. FileFresh' /\ LoginHome'
  BY <1>1 DEF FileFresh, LoginHome
<1>3. (LockHeld /\ OwnSession /\ OwnConversation)'
  BY <1>1 DEF IInv, LockHeld, OwnSession, OwnConversation, At
<1>4. CASE UNCHANGED <<issuer, live>>
  <2>1. \/ UNCHANGED config /\ readable' = FALSE
        \/ config' = [s \in SignIn |-> Unsaved] /\ readable' = TRUE
        \/ \E k \in Key, url \in Server : issuer[k] = None /\ issuer' = [issuer EXCEPT ![k] = url]
    BY DEF Edit
  <2>2. \A k \in Key, url \in Server :
          issuer[k] = None /\ issuer' = [issuer EXCEPT ![k] = url] => issuer' # issuer
    BY ConstantsOK DEF IInv, TypeOK
  <2>3. TypeOK' /\ FileHome'
    <3>1. CASE UNCHANGED config /\ readable' = FALSE
      BY <1>1, <1>4, <3>1 DEF IInv, TypeOK, FileHome, At
    <3>2. CASE config' = [s \in SignIn |-> Unsaved] /\ readable' = TRUE
      <4>1. config' \in [SignIn -> ProfileEntry]
        BY <3>2 DEF Unsaved, ProfileEntry
      <4>2. \A s \in SignIn : config'[s].api_key = None
        BY <3>2 DEF Unsaved
      <4>3. QED
        BY <1>1, <1>4, <3>2, <4>1, <4>2 DEF IInv, TypeOK, FileHome, At
    <3>3. QED
      BY <1>4, <2>1, <2>2, <3>1, <3>2
  <2>4. (KeyHome /\ RevokedDead)'
    BY <1>1, <1>4 DEF IInv, KeyHome, RevokedDead, At
  <2>5. QED
    BY <1>2, <1>3, <2>3, <2>4 DEF IInv
<1>5. CASE /\ UNCHANGED readable
           /\ \E s \in SignIn, k \in Key, url \in Server :
                /\ issuer[k] = None
                /\ issuer' = [issuer EXCEPT ![k] = url]
                /\ live' = live \cup {k}
                /\ config' = [config EXCEPT ![s] = [server_url |-> url, api_key |-> k]]
  <2>1. PICK s \in SignIn, k \in Key, url \in Server :
          /\ issuer[k] = None
          /\ issuer' = [issuer EXCEPT ![k] = url]
          /\ live' = live \cup {k}
          /\ config' = [config EXCEPT ![s] = [server_url |-> url, api_key |-> k]]
    BY <1>5
  <2>2. \A j \in Key : issuer[j] # None => issuer'[j] = issuer[j] /\ j # k
    BY <2>1 DEF IInv, TypeOK
  <2>3. /\ config'[s] = [server_url |-> url, api_key |-> k] /\ issuer'[k] = url
        /\ \A v \in SignIn \ {s} : config'[v] = config[v]
        /\ config' \in [SignIn -> ProfileEntry]
    BY <2>1 DEF IInv, TypeOK, ProfileEntry
  <2>4. TypeOK'
    BY <1>1, <1>5, <2>1, <2>3 DEF IInv, TypeOK, At
  <2>5. FileHome'
    BY <2>2, <2>3, ConstantsOK DEF IInv, TypeOK, FileHome, ProfileEntry
  <2>6. \A p \in Process : run[p].at # "idle" => run[p].server # None
    BY ConstantsOK DEF IInv, TypeOK, At
  <2>7. (KeyHome /\ RevokedDead)'
    BY <1>1, <2>1, <2>2, <2>6 DEF IInv, KeyHome, RevokedDead, Locking, At
  <2>8. QED
    BY <1>2, <1>3, <2>4, <2>5, <2>7 DEF IInv
<1>6. QED
  BY <1>4, <1>5 DEF Edit
LEMMA StepInv == IInv /\ [Next]_vars => IInv'
<1> SUFFICES ASSUME IInv, [Next]_vars PROVE IInv'
  OBVIOUS
<1>1. CASE UNCHANGED vars
  BY <1>1 DEF vars, IInv, TypeOK, LockHeld, FileFresh, FileHome, KeyHome, RevokedDead,
              OwnSession, OwnConversation, LoginHome, At
<1>2. ASSUME NEW p \in Process, Commands(p)
      PROVE  IInv'
  <2>1. CASE \E s \in SignIn, override \in Server \cup {None}, env \in EnvServers \cup {None} :
               handle_login(p, s, override, env)
    BY <2>1, LoginInv
  <2>2. CASE \E k \in Key : KeyIssued(p, k)
    BY <2>2, IssueInv
  <2>3. CASE ReadAgain(p, "issued", "save")
    BY <2>3, ReadInv
  <2>4. CASE ReadAgain(p, "revoked", "forget")
    BY <2>4, ReadInv
  <2>5. CASE save_login(p)
    BY <2>5, SaveInv
  <2>6. CASE \E s \in SignIn : handle_logout(p, s)
    BY <2>6, LogoutInv
  <2>7. CASE KeyRevoked(p)
    BY <2>7, RevokeInv
  <2>8. CASE Forget(p)
    BY <2>8, ForgetInv
  <2>9. CASE \E s \in SignIn, flag_key \in FlagKeys \cup {None}, env_url \in EnvServers \cup {None},
               env_key \in EnvKeys \cup {None}, cont \in BOOLEAN :
               ask(p, s, flag_key, env_url, env_key, cont)
    BY <2>9, AskInv
  <2>10. CASE write_local_session(p)
    BY <2>10, AnswerInv
  <2>11. CASE Fails(p)
    BY <2>11, ExitInv DEF Fails
  <2>12. QED
    BY <1>2, <2>1, <2>2, <2>3, <2>4, <2>5, <2>6, <2>7, <2>8, <2>9, <2>10, <2>11 DEF Commands
<1>3. ASSUME NEW k \in Key, Expire(k)
      PROVE  IInv'
  BY <1>3, FewerLive DEF Expire
<1>4. CASE Edit
  BY <1>4, EditInv
<1>5. QED
  BY <1>1, <1>2, <1>3, <1>4 DEF Next

THEOREM Invariance == Spec => []IInv
BY InitInv, StepInv, PTL DEF Spec

(* Every variable keeps its type.                                          *)
THEOREM TypeCorrect == Spec => []TypeOK
<1>1. IInv => TypeOK
  BY DEF IInv
<1>2. QED
  BY <1>1, Invariance, PTL

(* A key goes to the server that issued it and to no other (resolve_target, *)
(* login_server, handle_logout).                                           *)
THEOREM KeyGoesHome == Spec => []SavedKeyGoesHome
<1>1. IInv => SavedKeyGoesHome
  BY DEF IInv, KeyHome, SavedKeyGoesHome, Locking, At
<1>2. QED
  BY <1>1, Invariance, PTL

(* A conversation is continued only by the identity it belongs to          *)
(* (identity_tag, session_for_ask).                                        *)
THEOREM ConversationStays == Spec => []OwnConversation
<1>1. IInv => OwnConversation
  BY DEF IInv
<1>2. QED
  BY <1>1, Invariance, PTL

(* Unless the user edits the file while it is under way, no login moves a  *)
(* profile that holds a key to another server (login_server, save_login).  *)
THEOREM ProfileStays == Spec => []NeverMoved
<1>1. IInv => NeverMoved
  BY DEF IInv, LoginHome, NeverMoved, Moves, At
<1>2. QED
  BY <1>1, Invariance, PTL

(* Only a login's or a logout's last step, or the user, writes the file.   *)
LEMMA Writers ==
  ASSUME IInv, [Next]_vars, ~Edit, config' # config \/ readable' # readable
  PROVE  \E p \in Process : save_login(p) \/ Forget(p)
<1>1. \A p \in Process, b, a \in Steps : ReadAgain(p, b, a) => UNCHANGED <<config, readable>>
  BY DEF ReadAgain
<1>2. QED
  BY <1>1 DEF Next, Commands, vars, Expire, handle_login, KeyIssued, handle_logout, KeyRevoked,
              ask, write_local_session, Fails, Steps

(* Concurrent logins and logouts never drop each other's update, and no    *)
(* command replaces a file it cannot read (lock_config, save_login).       *)
THEOREM NoLostUpdate == Spec => OwnSignInOnly
<1> DEFINE A == config' # config \/ readable' # readable =>
       \/ Edit
       \/ /\ readable /\ readable'
          /\ \E p \in Process :
               /\ run[p].at \in {"save", "forget"}
               /\ \A s \in SignIn \ {run[p].signin} : config'[s] = config[s]
<1>1. IInv /\ [Next]_vars => A
  BY Writers, SaveWrites, ForgetWrites
<1>2. QED
  BY <1>1, Invariance, PTL DEF Spec, OwnSignInOnly

(* A logout clears a key only once no server accepts it (handle_logout).   *)
THEOREM ForgottenIsDead == Spec => OnlyRevokedForgotten
<1> DEFINE A == \A s \in SignIn :
       config[s].api_key # None /\ config'[s].api_key = None =>
         config[s].api_key \notin live \/ Edit
<1>1. IInv /\ [Next]_vars => A
  <2> SUFFICES ASSUME IInv, [Next]_vars, ~Edit, NEW s \in SignIn,
                      config[s].api_key # None, config'[s].api_key = None
               PROVE  config[s].api_key \notin live
    OBVIOUS
  <2>1. PICK p \in Process : save_login(p) \/ Forget(p)
    BY Writers
  <2>2. CASE save_login(p)
    <3>1. run[p].key # None
      BY <2>2, SaveWrites, ConstantsOK DEF IInv, KeyHome, Locking
    <3>2. QED
      BY <2>2, <3>1, SaveWrites
  <2>3. CASE Forget(p)
    BY <2>3, ForgetWrites DEF Cleared, IInv, RevokedDead
  <2>4. QED
    BY <2>1, <2>2, <2>3
<1>2. QED
  BY <1>1, Invariance, PTL DEF Spec, OnlyRevokedForgotten
=============================================================================
