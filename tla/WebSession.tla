----------------------------- MODULE WebSession -----------------------------
(***************************************************************************)
(* The web server's token and listener across reloads, and the browser     *)
(* that is signed in with the token.                                       *)
(*                                                                         *)
(* Code: webapi/webapi.go (Start, bind, Reload, Stop, the authentication,  *)
(* handleRotateToken, the [web] block of handleSettings), the callback and *)
(* the shutdown in main.go, webui/web/app.js (api, connect, the 5-s poll,  *)
(* rotate, settings).                                                      *)
(*                                                                         *)
(* Abstractions:                                                           *)
(*  - of the config only the [web] block is kept, and every file loads;    *)
(*  - the watcher runs from the start (Supervisor has its late start); its *)
(*    callbacks overlap, each is a thread of its own;                      *)
(*  - every request but rotate and settings is a "poll": it is refused or  *)
(*    it changes nothing; a request is checked and served in one step;     *)
(*  - Server.running is left out: only Start reads it, before anything     *)
(*    else runs.                                                           *)
(***************************************************************************)
EXTENDS Integers, FiniteSets

CONSTANTS
    Tokens,     \* tokens that are not empty
    Empty,      \* the empty token: no web server
    Nil,        \* there is no token line, or no token in a request
    Addrs,      \* listen addresses
    Callbacks,  \* watcher callbacks that may run at the same time
    Main,       \* the main goroutine
    Servers,    \* *http.Server values
    None,       \* no server
    MaxChanges, \* bound: rotations, saved settings and hand edits
    MaxFaults   \* bound: failed writes of the file

WebBlock == [token : Tokens \cup {Empty, Nil}, listen : Addrs]

ASSUME TokenAssumption ==
    Empty \notin Tokens /\ Nil \notin Tokens /\ Empty # Nil
ASSUME ServerAssumption == None \notin Servers
ASSUME ThreadAssumption == Main \notin Callbacks
ASSUME BoundAssumption == MaxChanges \in Nat /\ MaxFaults \in Nat

VARIABLES
    file,    \* the [web] block of config.toml
    cfg,     \* the [web] block of Server.cfg
    token,   \* Server.token
    listen,  \* Server.listen
    srv,     \* Server.srv
    server,  \* server[s]: address and life of each http.Server
    pending, \* the watcher's debounce timer is running
    pc,      \* pc[t]: what main or a callback does next
    new,     \* new[t]: the block callback t has loaded, or None
    addr,    \* addr[t]: the address the bind of thread t has read, or None
    victim,  \* victim[t]: the server thread t shuts down
    \* the browser
    store,   \* the token in localStorage
    signed,  \* the main section is shown, not the sign-in form
    answers, \* answers on their way to the browser
    \* history and bounds
    last,      \* the thread that loaded the file last
    overtaken, \* the block swapped in last was not the one loaded last
    crossed,   \* a callback began to stop or rebind the server while another
               \* was at it
    emptied, \* since the last bind the server was stopped, or not started,
             \* because the token was empty
    meddled, \* the token was changed otherwise than by a rotation: typed in,
             \* edited in the file, written back from a memory that was not the
             \* file (a reload under way, a failed rotation)
    changes, faults

Threads == Callbacks \cup {Main}
Free == [addr |-> None, life |-> "free"]

reloadVars  == <<pending, pc, new, addr, victim, last, overtaken, crossed>>
browserVars == <<store, signed, answers, meddled>>
cntVars     == <<changes, faults>>
vars == <<file, cfg, token, listen, srv, server, reloadVars, browserVars, emptied, cntVars>>

\* A token line that is not there reads as the empty token.
Deref(t) == IF t = Nil THEN Empty ELSE t

Init ==
    /\ file \in WebBlock
    /\ cfg = file
    /\ token = Deref(file.token) /\ listen = file.listen
    /\ srv = None
    /\ server = [s \in Servers |-> Free]
    /\ pending = FALSE
    /\ pc = [t \in Threads |-> IF t = Main THEN "start" ELSE "idle"]
    /\ new = [t \in Threads |-> None]
    /\ addr = [t \in Threads |-> None]
    /\ victim = [t \in Threads |-> None]
    /\ last = Main /\ overtaken = FALSE /\ crossed = FALSE
    /\ store = IF token = Empty THEN Nil ELSE token
    /\ signed = (store # Nil)
    /\ answers = {} /\ meddled = FALSE
    /\ emptied = FALSE
    /\ changes = 0 /\ faults = 0

Goto(t, to) == pc' = [pc EXCEPT ![t] = to]

-----------------------------------------------------------------------------
(* The listener.                                                           *)

Serving(s) == server[s].life = "serving"

\* No server under s, or one that failed and nobody is about to shut down.
Unused(s) ==
    /\ server[s].life \in {"free", "refused", "clashed"}
    /\ \A t \in Threads : victim[t] # s

\* Where a thread is between the decision to stop or rebind the server and the
\* return of Reload.
Exchanging(t) ==
    pc[t] \in {"stop", "restart", "shutdown", "shutdown, bind", "bind", "publish"}

\* bind reads the address under the read lock ...
Bind(t) ==
    /\ pc[t] = "bind"
    /\ addr' = [addr EXCEPT ![t] = listen]
    /\ Goto(t, "publish")
    /\ UNCHANGED <<file, cfg, token, listen, srv, server, pending, new, victim,
                   last, overtaken, crossed, browserVars, emptied, cntVars>>

\* ... and under the lock puts a new http.Server in w.srv, whatever is there;
\* its goroutine has not called ListenAndServe yet.
Publish(t) ==
    /\ pc[t] = "publish"
    /\ \E s \in Servers :
          /\ Unused(s)
          /\ server' = [server EXCEPT ![s] = [addr |-> addr[t], life |-> "new"]]
          /\ srv' = s
    /\ addr' = [addr EXCEPT ![t] = None]
    /\ emptied' = FALSE
    /\ Goto(t, IF t = Main THEN "run" ELSE "idle")
    /\ UNCHANGED <<file, cfg, token, listen, pending, new, victim, last,
                   overtaken, crossed, browserVars, cntVars>>

\* Start: nothing without a token, else bind.
Start ==
    /\ pc[Main] = "start"
    /\ Goto(Main, IF token = Empty THEN "run" ELSE "bind")
    /\ emptied' = (token = Empty)
    /\ UNCHANGED <<file, cfg, token, listen, srv, server, pending, new, addr,
                   victim, last, overtaken, crossed, browserVars, cntVars>>

\* The goroutine of bind: ListenAndServe fails when another server of the
\* process has the address, and may fail when the address is malformed or some
\* other process has it.  w.srv keeps the server that has failed.
Listen(s) ==
    /\ server[s].life = "new"
    /\ \E life \in IF \E r \in Servers : Serving(r) /\ server[r].addr = server[s].addr
                     THEN {"clashed"} ELSE {"serving", "refused"} :
          server' = [server EXCEPT ![s].life = life]
    /\ UNCHANGED <<file, cfg, token, listen, srv, reloadVars, browserVars, emptied, cntVars>>

\* Stop, under the lock: take the server out of w.srv.
StopTakes(t) ==
    /\ pc[t] \in {"stop", "restart"}
    /\ victim' = [victim EXCEPT ![t] = srv]
    /\ srv' = None
    /\ Goto(t, IF pc[t] = "stop" THEN "shutdown" ELSE "shutdown, bind")
    /\ UNCHANGED <<file, cfg, token, listen, server, pending, new, addr, last,
                   overtaken, crossed, browserVars, emptied, cntVars>>

\* Stop, without the lock: Shutdown closes the listener, and keeps a server
\* that has not listened yet from doing so.
StopCloses(t) ==
    /\ victim[t] # None
    /\ server' = [server EXCEPT ![victim[t]] = Free]
    /\ victim' = [victim EXCEPT ![t] = None]
    /\ UNCHANGED <<file, cfg, token, listen, srv, pending, pc, new, addr, last,
                   overtaken, crossed, browserVars, emptied, cntVars>>

\* Shutdown waits up to five seconds for the connections; without a server Stop
\* returns at once.
StopReturns(t) ==
    /\ pc[t] \in {"shutdown", "shutdown, bind"} /\ victim[t] = None
    /\ Goto(t, IF pc[t] = "shutdown, bind" THEN "bind"
               ELSE IF t = Main THEN "stopped" ELSE "idle")
    /\ UNCHANGED <<file, cfg, token, listen, srv, server, pending, new, addr,
                   victim, last, overtaken, crossed, browserVars, emptied, cntVars>>

\* The signal: runDaemon calls ws.Stop.
Signal ==
    /\ pc[Main] = "run"
    /\ Goto(Main, "stop")
    /\ UNCHANGED <<file, cfg, token, listen, srv, server, pending, new, addr,
                   victim, last, overtaken, crossed, browserVars, emptied, cntVars>>

-----------------------------------------------------------------------------
(* A callback of the watcher.                                              *)

\* The debounce timer fires: the callback is a goroutine of its own.
Fire(t) ==
    /\ pending /\ pc[Main] = "run"
    /\ pc[t] = "idle"
    /\ pending' = FALSE
    /\ Goto(t, "load")
    /\ UNCHANGED <<file, cfg, token, listen, srv, server, new, addr, victim, last,
                   overtaken, crossed, browserVars, emptied, cntVars>>

\* config.Load reads the file; d.Reload runs before ws.Reload.
Load(t) ==
    /\ pc[t] = "load"
    /\ new' = [new EXCEPT ![t] = file]
    /\ last' = t
    /\ Goto(t, "swap")
    /\ UNCHANGED <<file, cfg, token, listen, srv, server, pending, addr, victim,
                   overtaken, crossed, browserVars, emptied, cntVars>>

\* What Reload does under the lock, with the token it takes over and the
\* question whether the address is another one.
Swaps(t, newToken, moved) ==
    /\ pc[t] = "swap"
    /\ token' = newToken
    /\ listen' = new[t].listen
    /\ cfg' = new[t]
    /\ new' = [new EXCEPT ![t] = None]
    /\ overtaken' = (last # t)
    /\ Goto(t, IF moved THEN "decide, moved" ELSE "decide")
    /\ UNCHANGED <<file, srv, server, pending, addr, victim, last, crossed,
                   browserVars, emptied, cntVars>>

\* A file without a token line keeps the token.
NewToken(t) == IF new[t].token = Nil THEN token ELSE new[t].token

\* Slips: a file without a token line clears the token unnoticed; the address
\* is compared after it was taken over.
ReloadSwapsRaw(t) == Swaps(t, new[t].token, new[t].listen # listen)
ReloadSwapsEarly(t) == Swaps(t, NewToken(t), FALSE)

ReloadSwaps(t) == Swaps(t, NewToken(t), new[t].listen # listen)

\* What Reload does next, without the lock.
Decides(t, next) ==
    /\ pc[t] \in {"decide", "decide, moved"}
    /\ Goto(t, next)
    /\ emptied' = (emptied \/ token = Empty)
    /\ crossed' = \/ crossed
                   \/ /\ next # "idle"
                      /\ \E u \in Callbacks \ {t} : Exchanging(u)
    /\ UNCHANGED <<file, cfg, token, listen, srv, server, pending, new, addr,
                   victim, last, overtaken, browserVars, cntVars>>

\* Slip: a moved server is bound again without the Stop.
ReloadDecidesHastily(t) ==
    Decides(t, IF token = Empty THEN "stop"
               ELSE IF pc[t] = "decide, moved" THEN "bind" ELSE "idle")

\* Stop when the token is empty, restart when the address has changed.
ReloadDecides(t) ==
    Decides(t, IF token = Empty THEN "stop"
               ELSE IF pc[t] = "decide, moved" THEN "restart" ELSE "idle")

-----------------------------------------------------------------------------
(* The API, and the browser that calls it: a request is served when it is   *)
(* sent, its answer may arrive any time later.                              *)

Kinds == {"poll", "sign in", "rotate", "save"}
Answer == [kind : Kinds, status : {200, 401, 500}, value : Tokens \cup {Nil}]

\* authMiddleware: the token of the request is the server's, and not empty.
Authorized(t) == t # Nil /\ t = token

\* The browser awaits one answer of each kind; nobody answers when no server
\* listens.
Replies(kind, status, value) ==
    /\ \E s \in Servers : Serving(s)
    /\ \A a \in answers : a.kind # kind
    /\ answers' = answers \cup {[kind |-> kind, status |-> status, value |-> value]}
    /\ UNCHANGED <<listen, srv, server, pc, new, addr, victim, last, overtaken,
                   crossed, signed, emptied>>

\* The [web] block in memory changes, and the whole config is written.
Written(block) ==
    /\ changes < MaxChanges /\ changes' = changes + 1
    /\ cfg' = block /\ file' = block
    /\ pending' = TRUE
    /\ UNCHANGED faults

\* The write fails: the block has changed in memory only.
NotWritten(block) ==
    /\ changes < MaxChanges /\ changes' = changes + 1
    /\ faults < MaxFaults /\ faults' = faults + 1
    /\ cfg' = block
    /\ UNCHANGED <<file, pending>>

Untouched == UNCHANGED <<file, cfg, token, pending, cntVars>>

\* Any request that only reads, with the token t; the 5-s poll among them.
Read(kind, t) ==
    /\ Replies(kind, IF Authorized(t) THEN 200 ELSE 401, Nil)
    /\ Untouched

\* refresh and loadAll, while the main section is shown.
Poll ==
    /\ signed
    /\ Read("poll", store)
    /\ UNCHANGED <<store, meddled>>

\* connect(): the user pastes a token, /api/state verifies it.
SignIn(t) ==
    /\ ~signed
    /\ Read("sign in", t)
    /\ store' = t
    /\ meddled' = (meddled \/ t # file.token)

\* handleRotateToken: a new random token, in force at once.
Rotate ==
    /\ signed
    /\ \/ /\ Authorized(store)
          /\ \E t \in Tokens \ {token, file.token, cfg.token} :
                \/ /\ Written([cfg EXCEPT !.token = t])
                   /\ token' = t
                   /\ Replies("rotate", 200, t)
                   /\ UNCHANGED meddled
                \/ /\ NotWritten([cfg EXCEPT !.token = t])
                   /\ Replies("rotate", 500, Nil)
                   /\ meddled' = TRUE
                   /\ UNCHANGED token
       \/ ~Authorized(store) /\ Replies("rotate", 401, Nil) /\ Untouched /\ UNCHANGED meddled
    /\ UNCHANGED store

\* handleSettings: the token of the request, if there is one, goes to the
\* config and the file; the server goes on with its own until it reloads.
Save(t, at) ==
    /\ signed
    /\ LET block == [token |-> IF t = Nil THEN cfg.token ELSE t, listen |-> at]
       IN  \/ /\ Authorized(store)
              /\ \/ Written(block) /\ Replies("save", 200, t)
                 \/ NotWritten(block) /\ Replies("save", 500, Nil)
              /\ UNCHANGED token
           \/ ~Authorized(store) /\ Replies("save", 401, t) /\ Untouched
    /\ meddled' = (meddled \/ t # Nil \/ cfg.token # file.token)
    /\ UNCHANGED store

\* Somebody edits the [web] block by hand.
HandEdit(block) ==
    /\ changes < MaxChanges /\ changes' = changes + 1
    /\ block # file
    /\ file' = block
    /\ pending' = TRUE
    /\ meddled' = TRUE
    /\ UNCHANGED <<cfg, token, listen, srv, server, pc, new, addr, victim, last,
                   overtaken, crossed, store, signed, answers, emptied, faults>>

-----------------------------------------------------------------------------
(* The answers.                                                            *)

Received(a, kinds) ==
    /\ a \in answers /\ a.kind \in kinds
    /\ answers' = answers \ {a}
    /\ UNCHANGED <<file, cfg, token, listen, srv, server, reloadVars,
                   emptied, meddled, cntVars>>

\* api(): a 401 removes the token in store, whichever token was refused, and
\* shows the sign-in form.
TokenRejected(a) ==
    /\ a.status = 401
    /\ Received(a, Kinds \ {"save"})
    /\ store' = Nil /\ signed' = FALSE

\* connect() has verified the token: showMain.
SignedIn(a) ==
    /\ a.status = 200
    /\ Received(a, {"sign in"})
    /\ signed' = TRUE
    /\ UNCHANGED store

\* Slip: the token of a rotation is shown and not stored.
AnsweredUnstored(a) ==
    /\ a.status # 401
    /\ Received(a, {"poll", "rotate"})
    /\ UNCHANGED <<store, signed>>

\* The new token of a rotation is stored; a poll or an error changes nothing.
Answered(a) ==
    /\ a.status # 401
    /\ Received(a, {"poll", "rotate"})
    /\ store' = IF a.value # Nil THEN a.value ELSE store
    /\ UNCHANGED signed

\* The submit handler of the settings form stores the token typed in, after a
\* 200 and also after a 401, for which api() throws nothing.
Saved(a) ==
    /\ Received(a, {"save"})
    /\ store' = IF a.status # 500 /\ a.value # Nil THEN a.value
                ELSE IF a.status = 401 THEN Nil ELSE store
    /\ signed' = (signed /\ a.status # 401)

-----------------------------------------------------------------------------
Next ==
    \/ Start \/ Signal
    \/ \E t \in Callbacks : Fire(t) \/ Load(t) \/ ReloadSwaps(t) \/ ReloadDecides(t)
    \/ \E t \in Threads :
          Bind(t) \/ Publish(t) \/ StopTakes(t) \/ StopCloses(t) \/ StopReturns(t)
    \/ \E s \in Servers : Listen(s)
    \/ \E block \in WebBlock : HandEdit(block)
    \/ Poll \/ Rotate
    \/ \E t \in Tokens \cup {Nil}, at \in Addrs : Save(t, at)
    \/ \E t \in Tokens : SignIn(t)
    \/ \E a \in answers : TokenRejected(a) \/ SignedIn(a) \/ Answered(a) \/ Saved(a)

Spec == Init /\ [][Next]_vars

-----------------------------------------------------------------------------
\* The variables hold what the code can hold; the server's token is never the
\* missing one.
TypeOK ==
    /\ file \in WebBlock /\ cfg \in WebBlock
    /\ token \in Tokens \cup {Empty} /\ listen \in Addrs
    /\ srv \in Servers \cup {None}
    /\ server \in [Servers -> [addr : Addrs, life : {"new", "serving", "refused", "clashed"}]
                                 \cup {Free}]
    /\ pc \in [Threads -> {"start", "run", "stopped", "idle", "load", "swap", "decide",
                           "decide, moved", "stop", "restart", "shutdown",
                           "shutdown, bind", "bind", "publish"}]
    /\ new \in [Threads -> WebBlock \cup {None}]
    /\ addr \in [Threads -> Addrs \cup {None}]
    /\ victim \in [Threads -> Servers \cup {None}]
    /\ last \in Threads
    /\ store \in Tokens \cup {Nil}
    /\ answers \subseteq Answer

\* While no two callbacks restart or stop the server at a time: at most one
\* server listens, also in the middle of a restart (until ws.Stop of the
\* shutdown meets a reload), and every server that listens, or will, is one
\* that Stop would find or that is being shut down: none is left behind.
OneListener ==
    ~crossed =>
        /\ pc[Main] \in {"start", "bind", "publish", "run"} =>
              Cardinality({s \in Servers : Serving(s)}) <= 1
        /\ \A s \in Servers :
              server[s].life \in {"new", "serving"} =>
                  srv = s \/ \E t \in Threads : victim[t] = s

Quiet == pc[Main] = "run" /\ (\A t \in Callbacks : pc[t] = "idle") /\ ~pending

\* Between reloads the server follows the file, unless a callback that loaded
\* earlier has swapped last: it knows its token and address.  And unless two
\* callbacks have restarted or stopped it at a time, there is a server exactly
\* when there is a token (once a token was empty a new one does not bind the
\* server again, only a new address does), it was given the address in memory,
\* and it has not failed on one of the process's own listeners.
ServesAsConfigured ==
    Quiet =>
        /\ ~overtaken =>
              /\ file.token # Nil => token = file.token
              /\ listen = file.listen
        /\ ~crossed =>
              /\ token = Empty => srv = None
              /\ token # Empty /\ ~emptied => srv # None
              /\ srv # None => server[srv].addr = listen /\ server[srv].life # "clashed"

\* A browser that is shown the main section holds the token in force, or none:
\* its own rotations, however their answers, late polls and reloads fall, do not
\* leave it with an outdated one, unless an older callback has swapped last.
BrowserHoldsTheToken ==
    Quiet /\ signed /\ answers = {} /\ ~meddled /\ ~overtaken => store \in {token, Nil}

=============================================================================
