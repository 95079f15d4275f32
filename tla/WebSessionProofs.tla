-------------------------- MODULE WebSessionProofs --------------------------
(***************************************************************************)
(* Proofs about WebSession for every set of tokens, addresses and servers, *)
(* any number of callbacks at a time and every bound: no listener is left  *)
(* behind, the server follows the file, and a browser holds the token in   *)
(* force.                                                                  *)
(***************************************************************************)
EXTENDS WebSession, FiniteSetTheorems, TLAPS

USE TokenAssumption, ServerAssumption, BoundAssumption, ThreadAssumption

Before    == {"start", "bind", "publish", "run"}
Closing   == {"shutdown", "shutdown, bind"}
Rebinding == {"shutdown, bind", "bind", "publish"}
Deciding  == {"decide", "decide, moved"}
MainPlaces == {"start", "bind", "publish", "run", "stop", "shutdown", "stopped"}
CallbackPlaces ==
    {"idle", "load", "swap", "decide", "decide, moved", "stop", "restart",
     "shutdown", "shutdown, bind", "bind", "publish"}

\* Callbacks run only after the start; a callback holds a block until it has
\* taken it over, a thread an address between the two steps of bind, and a
\* server, which is not the one in w.srv, while it shuts it down.
Threaded ==
    /\ pc[Main] \in MainPlaces
    /\ \A t \in Callbacks :
          /\ pc[t] \in CallbackPlaces
          /\ pc[t] # "idle" => pc[Main] \notin {"start", "bind", "publish"}
    /\ \A t \in Threads :
          /\ pc[t] = "swap" => new[t] \in WebBlock
          /\ pc[t] = "publish" => addr[t] \in Addrs
          /\ victim[t] # None => pc[t] \in Closing /\ victim[t] # srv

\* Unless callbacks have crossed, at most one of them exchanges the server, and
\* it has taken the old one out of w.srv before it binds; until the shutdown
\* the old one was the only one.
Attended ==
    /\ pc[Main] \in {"start", "bind", "publish"} => srv = None
    /\ ~crossed =>
          /\ \A t, u \in Callbacks : Exchanging(t) /\ Exchanging(u) => t = u
          /\ \A t \in Callbacks : pc[t] \in Closing \cup Rebinding => srv = None
          /\ \A s \in Servers :
                server[s].life \in {"new", "serving"} =>
                    srv = s \/ \E t \in Threads : victim[t] = s
          /\ pc[Main] \in Before => \A s \in Servers : server[s].life # "clashed"

\* When the file waits for no reload and nobody is about to read it: the
\* callback that read it last holds what it says, or has put that in force, and
\* then an older one may have overtaken it.
Follows ==
    ~pending /\ (\A t \in Callbacks : pc[t] # "load") =>
        IF pc[last] = "swap" THEN new[last] = file
        ELSE \/ overtaken
             \/ listen = file.listen /\ (file.token # Nil => token = file.token)

\* Unless callbacks have crossed: what one of them decided about the server
\* stays right, or another one is going to decide again.
Decided ==
    /\ pc[Main] \in {"bind", "publish"} => token # Empty
    /\ pc[Main] = "publish" => addr[Main] = listen
    /\ ~crossed =>
          /\ \A t \in Callbacks :
                /\ pc[t] = "stop" => emptied
                /\ pc[t] \in {"restart"} \cup Rebinding /\ token = Empty =>
                      \E u \in Callbacks : pc[u] \in Deciding
                /\ pc[t] = "publish" =>
                      addr[t] = listen \/ \E u \in Callbacks : pc[u] = "decide, moved"
          /\ srv # None /\ token = Empty =>
                \E u \in Callbacks : pc[u] \in Deciding \cup {"stop"}
          /\ pc[Main] = "run" /\ ~emptied =>
                srv # None \/ \E u \in Callbacks : pc[u] \in Rebinding
          /\ pc[Main] \in Before /\ srv # None =>
                \/ server[srv].addr = listen
                \/ \E u \in Callbacks : pc[u] \in {"decide, moved", "restart", "stop"}

\* The browser holds the token of the file, none, or the one before a rotation
\* whose answer is on its way.
Informed ==
    ~meddled =>
        /\ \/ store \in {Nil, file.token}
           \/ \E a \in answers : a.value = file.token /\ a.value # Nil
        /\ \A a \in answers : a.value # Nil =>
              a.kind = "rotate" /\ a.value = file.token /\ a.status = 200

\* What the requests leave alone.
threadVars == <<srv, server, pc, new, addr, victim, last, overtaken, crossed>>
USE DEF threadVars

Inv == TypeOK /\ Threaded /\ Attended /\ Follows /\ Decided /\ Informed

-----------------------------------------------------------------------------
LEMMA BlockFields ==
    ASSUME NEW block \in WebBlock
    PROVE  block.token \in Tokens \cup {Empty, Nil} /\ block.listen \in Addrs
BY DEF WebBlock

LEMMA Derefs ==
    ASSUME NEW t \in Tokens \cup {Empty, Nil}
    PROVE  /\ Deref(t) \in Tokens \cup {Empty}
           /\ t # Nil => Deref(t) = t
BY DEF Deref

LEMMA Members == Main \in Threads /\ Callbacks \subseteq Threads /\ Main \notin Callbacks
BY DEF Threads

LEMMA InvInit == Init => Inv
<1> SUFFICES ASSUME Init PROVE Inv
  OBVIOUS
<1>1. file.token \in Tokens \cup {Empty, Nil} /\ file.listen \in Addrs
  BY BlockFields DEF Init
<1>2. /\ token \in Tokens \cup {Empty} /\ listen = file.listen
      /\ file.token # Nil => token = file.token
  BY <1>1, Derefs DEF Init
<1>3. store \in Tokens \cup {Nil} /\ store \in {Nil, file.token}
  BY <1>1, <1>2 DEF Init, Deref
<1>4. /\ pc[Main] = "start" /\ \A t \in Callbacks : pc[t] = "idle"
      /\ \A t \in Threads : victim[t] = None /\ pc[t] \in {"start", "idle"}
      /\ \A s \in Servers : server[s] = Free
      /\ server \in [Servers -> {Free}]
      /\ srv = None /\ last = Main /\ ~pending
  BY Members DEF Init
<1>5. TypeOK
  BY <1>1, <1>2, <1>3, <1>4, Members DEF Init, TypeOK
<1>6. Threaded
  BY <1>4 DEF Threaded, MainPlaces, CallbackPlaces
<1>7. Attended
  <2>1. \A t \in Callbacks : ~Exchanging(t) /\ pc[t] \notin Closing \cup Rebinding
    BY <1>4 DEF Exchanging, Closing, Rebinding
  <2>2. \A s \in Servers : server[s].life = "free"
    BY <1>4 DEF Free
  <2>3. QED
    BY <1>4, <2>1, <2>2 DEF Attended
<1>8. Follows
  BY <1>2, <1>4 DEF Follows
<1>9. Decided
  BY <1>4 DEF Decided, Rebinding
<1>10. Informed
  BY <1>3 DEF Init, Informed
<1>11. QED
  BY <1>5, <1>6, <1>7, <1>8, <1>9, <1>10 DEF Inv

\* A step of thread t, at another place of the code afterwards.
LEMMA Moved ==
    ASSUME Inv, NEW t \in Threads, NEW to, Goto(t, to)
    PROVE  /\ pc'[t] = to
           /\ \A u \in Threads \ {t} : pc'[u] = pc[u]
           /\ t \in Callbacks => pc'[Main] = pc[Main]
           /\ t = Main => \A u \in Callbacks : pc'[u] = pc[u]
BY Members DEF Goto, Inv, TypeOK

\* What the server does leaves the browser alone.
LEMMA BrowserUntouched ==
    ASSUME Inv, UNCHANGED <<file, store, answers, meddled>>
    PROVE  Informed'
BY DEF Inv, Informed

\* The state of the servers and their stops, when a thread moves that neither
\* begins nor ends to exchange the server.
LEMMA ServersUntouched ==
    ASSUME Inv, UNCHANGED <<srv, server, victim, crossed>>,
           pc'[Main] \in {"start", "bind", "publish"} =>
              pc[Main] \in {"start", "bind", "publish"},
           pc'[Main] \in Before => pc[Main] \in Before,
           \A t \in Callbacks :
              /\ Exchanging(t)' => Exchanging(t)
              /\ pc'[t] \in Closing \cup Rebinding => pc[t] \in Closing \cup Rebinding
    PROVE  Attended'
BY DEF Inv, Attended

\* Listen never finds its address taken before the shutdown, unless callbacks
\* have crossed.
LEMMA ListenStep ==
    ASSUME Inv, NEW s \in Servers, Listen(s)
    PROVE  Inv'
<1>1. UNCHANGED <<file, cfg, token, listen, srv, pending, pc, new, addr, victim,
                  last, overtaken, crossed, store, signed, answers, meddled,
                  emptied, changes, faults>>
  BY DEF Listen, reloadVars, browserVars, cntVars
<1> DEFINE taken == \E r \in Servers : Serving(r) /\ server[r].addr = server[s].addr
<1>2. PICK life \in {"serving", "refused", "clashed"} :
         /\ server' = [server EXCEPT ![s].life = life]
         /\ life = "clashed" => taken
  BY DEF Listen
<1>3. /\ server[s].life = "new"
      /\ server[s] \in [addr : Addrs, life : {"new", "serving", "refused", "clashed"}]
  <2>1. server[s].life = "new"
    BY DEF Listen
  <2>2. server[s] # Free
    BY <2>1 DEF Free
  <2>3. QED
    BY <2>1, <2>2 DEF Inv, TypeOK
<1>4. /\ server'[s].addr = server[s].addr /\ server'[s].life = life
      /\ server'[s] \in [addr : Addrs, life : {"new", "serving", "refused", "clashed"}]
      /\ \A q \in Servers \ {s} : server'[q] = server[q]
  BY <1>2, <1>3 DEF Inv, TypeOK
<1>5. TypeOK'
  <2>1. server' \in [Servers -> [addr : Addrs, life : {"new", "serving", "refused", "clashed"}]
                                   \cup {Free}]
    BY <1>2, <1>4 DEF Inv, TypeOK
  <2>2. QED
    BY <1>1, <2>1 DEF Inv, TypeOK
<1>6. ASSUME ~crossed, pc[Main] \in Before, taken PROVE FALSE
  <2>1. PICK r \in Servers : server[r].life = "serving"
    BY <1>6 DEF Serving
  <2>2. r # s
    BY <1>3, <2>1
  <2>3. /\ srv = s \/ \E t \in Threads : victim[t] = s
        /\ srv = r \/ \E t \in Threads : victim[t] = r
    BY <1>3, <1>6, <2>1 DEF Inv, Attended
  <2>4. \A t \in Threads : victim[t] # None => t \in Callbacks /\ srv = None
    BY <1>6 DEF Inv, Threaded, Attended, Threads, Before, Closing
  <2>5. \A t, u \in Callbacks : victim[t] # None /\ victim[u] # None => t = u
    <3>1. \A t \in Callbacks : victim[t] # None => Exchanging(t)
      BY Members DEF Inv, Threaded, Exchanging, Closing
    <3>2. QED
      BY <1>6, <3>1 DEF Inv, Attended
  <2>6. QED
    BY <2>2, <2>3, <2>4, <2>5
<1>7. Attended'
  <2>1. \A q \in Servers : server'[q].life \in {"new", "serving"} =>
                              server[q].life \in {"new", "serving"}
    BY <1>3, <1>4
  <2>2. ASSUME ~crossed, pc[Main] \in Before, NEW q \in Servers
        PROVE  server'[q].life # "clashed"
    BY <1>2, <1>4, <1>6, <2>2 DEF Inv, Attended
  <2>3. QED
    BY <1>1, <2>1, <2>2 DEF Inv, Attended, Exchanging
<1>8. \A q \in Servers : server'[q].addr = server[q].addr
  BY <1>4
<1>9. Decided'
  BY <1>1, <1>8 DEF Inv, TypeOK, Decided
<1>10. Threaded' /\ Follows' /\ Informed'
  BY <1>1 DEF Inv, Threaded, Follows, Informed
<1>11. QED
  BY <1>5, <1>7, <1>9, <1>10 DEF Inv

LEMMA BindStep ==
    ASSUME Inv, NEW t \in Threads, Bind(t)
    PROVE  Inv'
<1>1. /\ UNCHANGED <<file, cfg, token, listen, srv, server, pending, new, victim,
                     last, overtaken, crossed, store, signed, answers, meddled,
                     emptied, changes, faults>>
      /\ addr' = [addr EXCEPT ![t] = listen]
      /\ pc[t] = "bind"
  BY DEF Bind, browserVars, cntVars
<1>2. /\ pc'[t] = "publish" /\ pc' = [pc EXCEPT ![t] = "publish"]
      /\ \A u \in Threads \ {t} : pc'[u] = pc[u] /\ addr'[u] = addr[u]
      /\ t \in Callbacks => pc'[Main] = pc[Main]
      /\ t = Main => \A u \in Callbacks : pc'[u] = pc[u]
      /\ addr'[t] = listen /\ listen \in Addrs
  BY <1>1, Moved DEF Bind, Goto, Inv, TypeOK
<1>3. TypeOK'
  BY <1>1, <1>2 DEF Inv, TypeOK
<1>4. Threaded'
  BY <1>1, <1>2, Members DEF Inv, Threaded, Closing, MainPlaces, CallbackPlaces
<1>5. Attended'
  BY <1>1, <1>2, Members, ServersUntouched DEF Exchanging, Closing, Rebinding, Before
<1>6. Follows'
  BY <1>1, <1>2, Members DEF Inv, TypeOK, Follows
<1>7. Decided'
  BY <1>1, <1>2, Members DEF Inv, Decided, Before, Rebinding, Deciding
<1>8. QED
  BY <1>1, <1>3, <1>4, <1>5, <1>6, <1>7, BrowserUntouched DEF Inv

LEMMA PublishStep ==
    ASSUME Inv, NEW t \in Threads, Publish(t)
    PROVE  Inv'
<1>1. /\ UNCHANGED <<file, cfg, token, listen, pending, new, victim, last, overtaken,
                     crossed, store, signed, answers, meddled, changes, faults>>
      /\ addr' = [addr EXCEPT ![t] = None]
      /\ emptied' = FALSE
      /\ pc[t] = "publish"
  BY DEF Publish, browserVars, cntVars
<1>2. PICK s \in Servers :
         /\ \A u \in Threads : victim[u] # s
         /\ server' = [server EXCEPT ![s] = [addr |-> addr[t], life |-> "new"]]
         /\ srv' = s
  BY DEF Publish, Unused
<1>3. /\ pc' = [pc EXCEPT ![t] = IF t = Main THEN "run" ELSE "idle"]
      /\ \A u \in Threads \ {t} : pc'[u] = pc[u] /\ addr'[u] = addr[u]
      /\ t = Main => pc'[Main] = "run" /\ \A u \in Callbacks : pc'[u] = pc[u]
      /\ t \in Callbacks => pc'[t] = "idle" /\ pc'[Main] = pc[Main]
  BY <1>1, Moved, Members DEF Publish, Goto, Inv, TypeOK
<1>4. /\ server'[s].addr = addr[t] /\ server'[s].life = "new"
      /\ \A q \in Servers \ {s} : server'[q] = server[q]
      /\ addr[t] \in Addrs /\ s # None
  BY <1>1, <1>2 DEF Inv, TypeOK, Threaded
<1>5. /\ t = Main => srv = None /\ \A u \in Callbacks : pc[u] = "idle"
      /\ t \in Callbacks => pc[Main] \notin {"start", "bind", "publish"}
      /\ ~crossed => srv = None
      /\ ~crossed /\ t \in Callbacks => \A u \in Callbacks \ {t} : ~Exchanging(u)
  BY <1>1, Members DEF Inv, Threaded, Attended, Rebinding, Exchanging, Threads
<1>6. TypeOK'
  <2>1. server' \in [Servers -> [addr : Addrs, life : {"new", "serving", "refused", "clashed"}]
                                   \cup {Free}]
    BY <1>2, <1>4 DEF Inv, TypeOK
  <2>2. QED
    BY <1>1, <1>2, <1>3, <1>4, <2>1 DEF Inv, TypeOK
<1>7. Threaded'
  <2>1. pc'[Main] \in MainPlaces
    BY <1>3, Members DEF Inv, Threaded, Threads, MainPlaces
  <2>2. ASSUME NEW u \in Callbacks
        PROVE  /\ pc'[u] \in CallbackPlaces
               /\ pc'[u] # "idle" => pc'[Main] \notin {"start", "bind", "publish"}
    BY <1>3, <1>5, Members DEF Inv, Threaded, Threads, CallbackPlaces
  <2>3. ASSUME NEW u \in Threads
        PROVE  /\ pc'[u] = "swap" => new'[u] \in WebBlock
               /\ pc'[u] = "publish" => addr'[u] \in Addrs
    BY <1>1, <1>3, Members DEF Inv, Threaded, Threads
  <2>4. ASSUME NEW u \in Threads, victim'[u] # None
        PROVE  pc'[u] \in Closing /\ victim'[u] # srv'
    BY <1>1, <1>2, <1>3, <2>4 DEF Inv, Threaded, Closing
  <2>5. QED
    BY <2>1, <2>2, <2>3, <2>4 DEF Threaded
<1>8. Attended'
  <2>1. \A u \in Callbacks : /\ pc'[u] # "idle" => pc'[u] = pc[u] /\ u # t
                             /\ Exchanging(u)' => Exchanging(u) /\ u # t
    BY <1>3, <1>5, Members DEF Exchanging
  <2>2. pc'[Main] \notin {"start", "bind", "publish"}
    BY <1>3, <1>5, Members DEF Threads
  <2>3. ASSUME ~crossed
        PROVE  /\ \A u \in Callbacks : ~Exchanging(u)'
               /\ \A q \in Servers : server'[q].life \in {"new", "serving"} =>
                     srv' = q \/ \E u \in Threads : victim'[u] = q
               /\ pc'[Main] \in Before => \A q \in Servers : server'[q].life # "clashed"
    <3>1. \A u \in Callbacks : ~Exchanging(u)'
      BY <1>5, <2>1, <2>3, Members DEF Threads, Exchanging
    <3>2. pc'[Main] \in Before => pc[Main] \in Before
      BY <1>1, <1>3, Members DEF Before, Threads
    <3>3. QED
      BY <1>1, <1>2, <1>4, <1>5, <2>3, <3>1, <3>2 DEF Inv, Attended
  <2>4. \A u \in Callbacks : pc'[u] \in Closing \cup Rebinding => Exchanging(u)'
    BY DEF Exchanging, Closing, Rebinding
  <2>5. QED
    BY <1>1, <2>2, <2>3, <2>4 DEF Attended
<1>9. Follows'
  BY <1>1, <1>3, Members DEF Inv, TypeOK, Follows
<1>10. Decided'
  <2>1. ASSUME ~crossed, token = Empty
        PROVE  \E u \in Callbacks : pc'[u] \in Deciding
    BY <1>1, <1>3, <2>1, Members DEF Inv, Decided, Threads, Rebinding, Deciding
  <2>2. ASSUME ~crossed
        PROVE  addr[t] = listen \/ \E u \in Callbacks : pc'[u] = "decide, moved"
    BY <1>1, <1>3, <2>2, Members DEF Inv, Decided, Threads
  <2>3. ASSUME ~crossed, NEW u \in Callbacks PROVE ~Exchanging(u)'
    BY <1>3, <1>5, <2>3, Members DEF Threads, Exchanging
  <2>4. pc'[Main] \notin {"bind", "publish"}
    BY <1>3, <1>5, Members DEF Threads
  <2>5. QED
    BY <1>1, <1>2, <1>4, <2>1, <2>2, <2>3, <2>4 DEF Decided, Exchanging, Rebinding
<1>11. QED
  BY <1>1, <1>6, <1>7, <1>8, <1>9, <1>10, BrowserUntouched DEF Inv

LEMMA StopTakesStep ==
    ASSUME Inv, NEW t \in Threads, StopTakes(t)
    PROVE  Inv'
<1>1. /\ UNCHANGED <<file, cfg, token, listen, server, pending, new, addr, last,
                     overtaken, crossed, store, signed, answers, meddled, emptied,
                     changes, faults>>
      /\ pc[t] \in {"stop", "restart"} /\ victim[t] = None
      /\ victim' = [victim EXCEPT ![t] = srv]
      /\ srv' = None
  BY DEF StopTakes, browserVars, cntVars, Inv, Threaded, Closing
<1>2. /\ pc' = [pc EXCEPT ![t] = IF pc[t] = "stop" THEN "shutdown" ELSE "shutdown, bind"]
      /\ \A u \in Threads \ {t} : pc'[u] = pc[u] /\ victim'[u] = victim[u]
      /\ \/ pc[t] = "stop" /\ pc'[t] = "shutdown"
         \/ pc[t] = "restart" /\ pc'[t] = "shutdown, bind"
      /\ t \in Callbacks => pc'[Main] = pc[Main]
      /\ t = Main => /\ pc[Main] = "stop" /\ pc'[Main] = "shutdown"
                     /\ \A u \in Callbacks : pc'[u] = pc[u]
      /\ victim'[t] = srv
  BY <1>1, Moved, Members DEF StopTakes, Goto, Inv, TypeOK, Threaded, MainPlaces
<1>3. TypeOK'
  BY <1>1, <1>2 DEF Inv, TypeOK
<1>4. Threaded'
  <2>1. pc'[Main] \in MainPlaces
    BY <1>2, Members DEF Inv, Threaded, Threads, MainPlaces
  <2>2. ASSUME NEW u \in Callbacks
        PROVE  /\ pc'[u] \in CallbackPlaces
               /\ pc'[u] # "idle" => pc'[Main] \notin {"start", "bind", "publish"}
    BY <1>1, <1>2, Members DEF Inv, Threaded, Threads, CallbackPlaces
  <2>3. ASSUME NEW u \in Threads
        PROVE  /\ pc'[u] = "swap" => new'[u] \in WebBlock
               /\ pc'[u] = "publish" => addr'[u] \in Addrs
    <3>1. CASE u = t
      BY <1>2, <3>1
    <3>2. CASE u # t
      BY <1>1, <1>2, <3>2 DEF Inv, Threaded
    <3>3. QED
      BY <3>1, <3>2
  <2>4. ASSUME NEW u \in Threads, victim'[u] # None
        PROVE  pc'[u] \in Closing /\ victim'[u] # srv'
    BY <1>1, <1>2, <2>4 DEF Inv, Threaded, Closing
  <2>5. QED
    BY <2>1, <2>2, <2>3, <2>4 DEF Threaded
<1>5. Attended'
  <2>1. ASSUME NEW s \in Servers, srv = s \/ \E u \in Threads : victim[u] = s
        PROVE  \E u \in Threads : victim'[u] = s
    BY <1>1, <1>2, <2>1
  <2>2. \A u \in Callbacks : Exchanging(u)' => Exchanging(u)
    BY <1>1, <1>2, Members DEF Exchanging
  <2>3. QED
    BY <1>1, <1>2, <2>1, <2>2, Members DEF Inv, Attended, Before, Threads
<1>6. Follows'
  BY <1>1, <1>2, Members DEF Inv, TypeOK, Follows
<1>7. Decided'
  <2>1. pc'[Main] \in {"bind", "publish", "run"} =>
           pc'[Main] = pc[Main] /\ t \in Callbacks /\ pc[Main] = "run"
    BY <1>1, <1>2, Members DEF Threads, Inv, Threaded
  <2>2. \A u \in Callbacks :
           /\ pc[u] \in Deciding \cup Rebinding => pc'[u] = pc[u]
           /\ pc'[u] \in {"stop", "publish", "decide, moved", "restart"} => pc'[u] = pc[u]
           /\ pc'[u] \in Rebinding => pc[u] \in {"restart"} \cup Rebinding
    <3> TAKE u \in Callbacks
    <3>1. CASE u = t
      BY <1>2, <3>1 DEF Rebinding, Deciding
    <3>2. CASE u # t
      BY <1>2, <3>2, Members DEF Rebinding
    <3>3. QED
      BY <3>1, <3>2
  <2>3. ASSUME ~crossed, pc[Main] = "run", pc'[Main] = "run", ~emptied
        PROVE  \E u \in Callbacks : pc'[u] \in Rebinding
    <3>1. t \in Callbacks /\ pc[t] = "restart"
      BY <1>1, <1>2, <2>3, Members DEF Threads, Inv, Decided
    <3>2. QED
      BY <1>2, <3>1 DEF Rebinding
  <2>4. ASSUME ~crossed, NEW u \in Callbacks
        PROVE  /\ pc'[u] = "stop" => emptied
               /\ pc'[u] \in {"restart"} \cup Rebinding /\ token = Empty =>
                     \E v \in Callbacks : pc'[v] \in Deciding
               /\ pc'[u] = "publish" =>
                     addr[u] = listen \/ \E v \in Callbacks : pc'[v] = "decide, moved"
    BY <2>2, <2>4 DEF Inv, Decided, Deciding
  <2>5. QED
    BY <1>1, <1>2, <2>1, <2>3, <2>4 DEF Inv, Decided
<1>8. QED
  BY <1>1, <1>3, <1>4, <1>5, <1>6, <1>7, BrowserUntouched DEF Inv

LEMMA StopClosesStep ==
    ASSUME Inv, NEW t \in Threads, StopCloses(t)
    PROVE  Inv'
<1>1. /\ UNCHANGED <<file, cfg, token, listen, srv, pending, pc, new, addr, last,
                     overtaken, crossed, store, signed, answers, meddled, emptied,
                     changes, faults>>
      /\ victim[t] \in Servers /\ victim[t] # srv
      /\ server' = [server EXCEPT ![victim[t]] = Free]
      /\ victim' = [victim EXCEPT ![t] = None]
  BY DEF StopCloses, browserVars, cntVars, Inv, TypeOK, Threaded
<1>2. /\ \A u \in Threads \ {t} : victim'[u] = victim[u]
      /\ victim'[t] = None
      /\ \A s \in Servers : server'[s] = IF s = victim[t] THEN Free ELSE server[s]
  BY <1>1 DEF Inv, TypeOK
<1>3. TypeOK'
  BY <1>1, <1>2 DEF Inv, TypeOK
<1>4. Threaded'
  BY <1>1, <1>2 DEF Inv, Threaded
<1>5. Attended'
  <2>1. \A s \in Servers : server'[s].life \in {"new", "serving", "clashed"} =>
           s # victim[t] /\ server'[s] = server[s]
    BY <1>2 DEF Free
  <2>2. \A s \in Servers : s # victim[t] /\ (\E u \in Threads : victim[u] = s) =>
           \E u \in Threads : victim'[u] = s
    BY <1>2
  <2>3. QED
    BY <1>1, <2>1, <2>2 DEF Inv, Attended, Exchanging
<1>6. srv # None => server'[srv] = server[srv]
  BY <1>1, <1>2 DEF Inv, TypeOK
<1>7. Decided'
  BY <1>1, <1>6 DEF Inv, Decided
<1>8. Follows' /\ Informed'
  BY <1>1 DEF Inv, Follows, Informed
<1>9. QED
  BY <1>3, <1>4, <1>5, <1>7, <1>8 DEF Inv

LEMMA StopReturnsStep ==
    ASSUME Inv, NEW t \in Threads, StopReturns(t)
    PROVE  Inv'
<1>1. /\ UNCHANGED <<file, cfg, token, listen, srv, server, pending, new, addr, victim,
                     last, overtaken, crossed, store, signed, answers, meddled,
                     emptied, changes, faults>>
      /\ pc[t] \in {"shutdown", "shutdown, bind"} /\ victim[t] = None
  BY DEF StopReturns, browserVars, cntVars
<1>2. /\ pc' = [pc EXCEPT ![t] = IF pc[t] = "shutdown, bind" THEN "bind"
                                 ELSE IF t = Main THEN "stopped" ELSE "idle"]
      /\ \/ pc[t] = "shutdown, bind" /\ pc'[t] = "bind"
         \/ pc[t] = "shutdown" /\ pc'[t] \in {"stopped", "idle"}
      /\ pc'[t] = "stopped" => t = Main
      /\ \A u \in Threads \ {t} : pc'[u] = pc[u]
      /\ t \in Callbacks => pc'[Main] = pc[Main]
      /\ t = Main => /\ pc[Main] = "shutdown" /\ pc'[Main] = "stopped"
                     /\ \A u \in Callbacks : pc'[u] = pc[u]
  BY <1>1, Moved, Members DEF StopReturns, Goto, Inv, TypeOK, Threaded, MainPlaces
<1>3. TypeOK'
  BY <1>1, <1>2 DEF Inv, TypeOK
<1>4. Threaded'
  <2>1. pc'[Main] \in MainPlaces
    BY <1>2, Members DEF Inv, Threaded, Threads, MainPlaces
  <2>2. ASSUME NEW u \in Callbacks
        PROVE  /\ pc'[u] \in CallbackPlaces
               /\ pc'[u] # "idle" => pc'[Main] \notin {"start", "bind", "publish"}
    BY <1>1, <1>2, Members DEF Inv, Threaded, Threads, CallbackPlaces
  <2>3. ASSUME NEW u \in Threads
        PROVE  /\ pc'[u] = "swap" => new'[u] \in WebBlock
               /\ pc'[u] = "publish" => addr'[u] \in Addrs
               /\ victim'[u] # None => pc'[u] \in Closing /\ victim'[u] # srv
    <3>1. CASE u = t
      BY <1>1, <1>2, <3>1
    <3>2. CASE u # t
      BY <1>1, <1>2, <3>2 DEF Inv, Threaded
    <3>3. QED
      BY <3>1, <3>2
  <2>4. QED
    BY <1>1, <2>1, <2>2, <2>3 DEF Threaded
<1>5. Attended'
  <2>1. \A u \in Callbacks :
           /\ Exchanging(u)' => Exchanging(u)
           /\ pc'[u] \in Closing \cup Rebinding => pc[u] \in Closing \cup Rebinding
    BY <1>1, <1>2, Members DEF Exchanging, Closing, Rebinding
  <2>2. pc'[Main] \in Before => pc[Main] = pc'[Main]
    BY <1>2, Members DEF Threads, Before
  <2>3. QED
    BY <1>1, <2>1, <2>2, ServersUntouched DEF Before
<1>6. Follows'
  BY <1>1, <1>2, Members DEF Inv, TypeOK, Follows
<1>7. Decided'
  <2>1. pc'[Main] \in Before => pc[Main] = pc'[Main]
    BY <1>2, Members DEF Threads, Before
  <2>2. \A u \in Callbacks :
           /\ pc'[u] \in Rebinding <=> pc[u] \in Rebinding
           /\ pc[u] \in Deciding \cup {"stop", "restart", "publish"} => pc'[u] = pc[u]
           /\ pc'[u] \in Deciding \cup {"stop", "restart", "publish"} => pc'[u] = pc[u]
    <3> TAKE u \in Callbacks
    <3>1. u = t => u # Main
      BY Members
    <3>2. CASE u = t
      BY <1>1, <1>2, <3>1, <3>2 DEF Rebinding, Deciding
    <3>3. CASE u # t
      BY <1>2, <3>3, Members
    <3>4. QED
      BY <3>2, <3>3
  <2>3. QED
    BY <1>1, <2>1, <2>2 DEF Inv, Decided, Before, Deciding, Rebinding
<1>8. QED
  BY <1>1, <1>3, <1>4, <1>5, <1>6, <1>7, BrowserUntouched DEF Inv

-----------------------------------------------------------------------------
(* The other steps of main, and those of a callback.                        *)

LEMMA MainStep ==
    ASSUME Inv, Start \/ Signal
    PROVE  Inv'
<1>1. CASE Start
  <2>1. /\ UNCHANGED <<file, cfg, token, listen, srv, server, pending, new, addr,
                       victim, last, overtaken, crossed, store, signed, answers,
                       meddled, changes, faults>>
        /\ emptied' = (token = Empty)
        /\ pc[Main] = "start" /\ srv = None
        /\ pc' = [pc EXCEPT ![Main] = IF token = Empty THEN "run" ELSE "bind"]
        /\ \/ token = Empty /\ pc'[Main] = "run"
           \/ token # Empty /\ pc'[Main] = "bind"
        /\ \A u \in Callbacks : pc'[u] = pc[u] /\ pc[u] = "idle"
        /\ \A u \in Threads \ {Main} : pc'[u] = pc[u]
    BY <1>1, Moved, Members DEF Start, Goto, browserVars, cntVars, Inv, Threaded, Attended
  <2>2. TypeOK'
    BY <2>1 DEF Inv, TypeOK
  <2>3. Threaded'
    <3>1. ASSUME NEW u \in Threads
          PROVE  /\ pc'[u] = "swap" => new[u] \in WebBlock
                 /\ pc'[u] = "publish" => addr[u] \in Addrs
                 /\ victim[u] # None => pc'[u] \in Closing /\ victim[u] # srv
      <4>1. CASE u = Main
        BY <2>1, <3>1, <4>1 DEF Inv, Threaded, Closing
      <4>2. CASE u # Main
        BY <2>1, <3>1, <4>2 DEF Inv, Threaded
      <4>3. QED
        BY <4>1, <4>2
    <3>2. QED
      BY <2>1, <3>1 DEF Threaded, MainPlaces, CallbackPlaces
  <2>4. Attended'
    BY <2>1, ServersUntouched DEF Before, Exchanging
  <2>5. Follows'
    BY <2>1, Members DEF Inv, TypeOK, Follows
  <2>6. Decided'
    <3>1. \A u \in Callbacks : pc'[u] = "idle"
      BY <2>1
    <3>2. QED
      BY <2>1, <3>1 DEF Decided, Rebinding
  <2>7. QED
    BY <2>1, <2>2, <2>3, <2>4, <2>5, <2>6, BrowserUntouched DEF Inv
<1>2. CASE Signal
  <2>1. /\ UNCHANGED <<file, cfg, token, listen, srv, server, pending, new, addr,
                       victim, last, overtaken, crossed, store, signed, answers,
                       meddled, emptied, changes, faults>>
        /\ pc[Main] = "run"
        /\ pc' = [pc EXCEPT ![Main] = "stop"]
        /\ pc'[Main] = "stop"
        /\ \A u \in Callbacks : pc'[u] = pc[u]
        /\ \A u \in Threads \ {Main} : pc'[u] = pc[u]
    BY <1>2, Moved, Members DEF Signal, Goto, browserVars, cntVars
  <2>2. TypeOK'
    BY <2>1 DEF Inv, TypeOK
  <2>3. Threaded'
    BY <2>1, Members DEF Inv, Threaded, MainPlaces, CallbackPlaces, Closing
  <2>4. Attended'
    BY <2>1, ServersUntouched DEF Before, Exchanging
  <2>5. Follows'
    BY <2>1, Members DEF Inv, TypeOK, Follows
  <2>6. Decided'
    BY <2>1 DEF Inv, Decided, Before
  <2>7. QED
    BY <2>1, <2>2, <2>3, <2>4, <2>5, <2>6, BrowserUntouched DEF Inv
<1>3. QED
  BY <1>1, <1>2

\* Steps of a callback before it has taken the block over.
LEMMA LoadStep ==
    ASSUME Inv, NEW t \in Callbacks, Fire(t) \/ Load(t)
    PROVE  Inv'
<1>1. /\ UNCHANGED <<file, cfg, token, listen, srv, server, addr, victim, overtaken,
                     crossed, store, signed, answers, meddled, emptied, changes, faults>>
      /\ t \in Threads
  BY Members DEF Fire, Load, browserVars, cntVars
<1>2. /\ pc[t] \in {"idle", "load"} /\ pc'[t] \in {"load", "swap"}
      /\ pc' = [pc EXCEPT ![t] = pc'[t]]
      /\ \A u \in Threads \ {t} : pc'[u] = pc[u]
      /\ pc'[Main] = pc[Main] /\ pc[Main] \notin {"start", "bind", "publish"}
  BY <1>1, Moved, Members DEF Fire, Load, Goto, Inv, Threaded
<1>3. /\ new' \in [Threads -> WebBlock \cup {None}] /\ last' \in Threads
      /\ \A u \in Threads : pc'[u] = "swap" => new'[u] \in WebBlock
  <2>1. CASE Fire(t)
    <3>1. UNCHANGED <<new, last>> /\ pc'[t] = "load"
      BY <1>1, <2>1, Moved DEF Fire
    <3>2. QED
      BY <1>1, <1>2, <3>1 DEF Inv, TypeOK, Threaded
  <2>2. CASE Load(t)
    BY <1>1, <1>2, <2>2 DEF Load, Inv, TypeOK, Threaded
  <2>3. QED
    BY <2>1, <2>2
<1>4. TypeOK'
  BY <1>1, <1>2, <1>3 DEF Inv, TypeOK
<1>5. Threaded'
  BY <1>1, <1>2, <1>3, Members DEF Inv, Threaded, MainPlaces, CallbackPlaces, Closing
<1>6. Attended'
  BY <1>1, <1>2, Members, ServersUntouched DEF Before, Exchanging, Closing, Rebinding
<1>7. Follows'
  <2>1. CASE Fire(t)
    BY <1>1, <1>2, <2>1, Moved DEF Fire, Follows
  <2>2. CASE Load(t)
    <3>1. pc'[t] = "swap" /\ new'[t] = file /\ last' = t
      BY <1>1, <2>2, Moved DEF Load, Inv, TypeOK
    <3>2. QED
      BY <1>1, <3>1 DEF Follows
  <2>3. QED
    BY <2>1, <2>2
<1>8. Decided'
  BY <1>1, <1>2, Members DEF Inv, Decided, Before, Rebinding, Deciding
<1>9. QED
  BY <1>1, <1>4, <1>5, <1>6, <1>7, <1>8, BrowserUntouched DEF Inv

LEMMA SwapStep ==
    ASSUME Inv, NEW t \in Callbacks, ReloadSwaps(t)
    PROVE  Inv'
<1>1. /\ UNCHANGED <<file, srv, server, pending, addr, victim, last, crossed, store,
                     signed, answers, meddled, emptied, changes, faults>>
      /\ t \in Threads /\ pc[t] = "swap" /\ new[t] \in WebBlock
      /\ token' = IF new[t].token = Nil THEN token ELSE new[t].token
      /\ listen' = new[t].listen /\ cfg' = new[t]
      /\ new' = [new EXCEPT ![t] = None]
      /\ overtaken' = (last # t)
  BY Members DEF ReloadSwaps, Swaps, NewToken, browserVars, cntVars, Inv, Threaded
<1>2. /\ pc' = [pc EXCEPT ![t] = pc'[t]]
      /\ pc'[t] = IF new[t].listen # listen THEN "decide, moved" ELSE "decide"
      /\ \A u \in Threads \ {t} : pc'[u] = pc[u]
      /\ pc'[Main] = pc[Main] /\ pc[Main] \notin {"start", "bind", "publish"}
  <2>1. Goto(t, IF new[t].listen # listen THEN "decide, moved" ELSE "decide")
    BY DEF ReloadSwaps, Swaps
  <2>2. pc[Main] \notin {"start", "bind", "publish"}
    BY <1>1 DEF Inv, Threaded
  <2>3. QED
    BY <1>1, <2>1, <2>2, Moved DEF Goto
<1>3. new[t].token \in Tokens \cup {Empty, Nil} /\ new[t].listen \in Addrs
  BY <1>1, BlockFields
<1>4. token' \in Tokens \cup {Empty} /\ listen' \in Addrs
  BY <1>1, <1>3 DEF Inv, TypeOK
<1>5. TypeOK'
  BY <1>1, <1>2, <1>4 DEF Inv, TypeOK
<1>6. Threaded'
  BY <1>1, <1>2, Members DEF Inv, TypeOK, Threaded, MainPlaces, CallbackPlaces, Closing
<1>7. Attended'
  BY <1>1, <1>2, Members, ServersUntouched DEF Before, Exchanging, Closing, Rebinding
<1>8. Follows'
  <2> SUFFICES ASSUME ~pending, \A u \in Callbacks : pc'[u] # "load"
               PROVE  IF pc'[last] = "swap" THEN new'[last] = file
                      ELSE \/ overtaken'
                           \/ listen' = file.listen /\ (file.token # Nil => token' = file.token)
    BY <1>1 DEF Follows
  <2>1. \A u \in Callbacks : pc[u] # "load"
    BY <1>1, <1>2, Members
  <2>2. last \in Threads
    BY DEF Inv, TypeOK
  <2>3. CASE last = t
    BY <1>1, <1>2, <2>1, <2>3 DEF Inv, Follows
  <2>4. CASE last # t
    BY <1>1, <1>2, <2>1, <2>2, <2>4 DEF Inv, TypeOK, Follows
  <2>5. QED
    BY <2>3, <2>4
<1>9. Decided'
  <2>1. pc'[t] \in Deciding /\ (listen' = listen \/ pc'[t] = "decide, moved")
    BY <1>1, <1>2 DEF Deciding
  <2>2. \A u \in Callbacks : pc[u] \in {"restart", "stop"} \cup Deciding \cup Rebinding
                                => pc'[u] = pc[u]
    BY <1>1, <1>2, Members DEF Deciding, Rebinding
  <2>3. \A u \in Callbacks : pc'[u] \in {"restart", "stop"} \cup Rebinding
                                => pc'[u] = pc[u]
    BY <2>1, <1>2, Members DEF Deciding, Rebinding
  <2>4. QED
    BY <1>1, <1>2, <2>1, <2>2, <2>3 DEF Inv, Decided, Before, Deciding, Rebinding
<1>10. QED
  BY <1>1, <1>5, <1>6, <1>7, <1>8, <1>9, BrowserUntouched DEF Inv

LEMMA DecideStep ==
    ASSUME Inv, NEW t \in Callbacks, ReloadDecides(t)
    PROVE  Inv'
<1> DEFINE next == IF token = Empty THEN "stop"
                   ELSE IF pc[t] = "decide, moved" THEN "restart" ELSE "idle"
<1>1. /\ UNCHANGED <<file, cfg, token, listen, srv, server, pending, new, addr,
                     victim, last, overtaken, store, signed, answers, meddled,
                     changes, faults>>
      /\ t \in Threads /\ pc[t] \in {"decide", "decide, moved"}
      /\ emptied' = (emptied \/ token = Empty)
      /\ crossed => crossed'
      /\ ~crossed' /\ next # "idle" => \A u \in Callbacks \ {t} : ~Exchanging(u)
  BY Members DEF ReloadDecides, Decides, browserVars, cntVars
<1>2. /\ pc' = [pc EXCEPT ![t] = next] /\ pc'[t] = next
      /\ \A u \in Threads \ {t} : pc'[u] = pc[u]
      /\ pc'[Main] = pc[Main] /\ pc[Main] \notin {"start", "bind", "publish"}
  <2>1. Goto(t, next)
    BY DEF ReloadDecides, Decides
  <2>2. pc[Main] \notin {"start", "bind", "publish"}
    BY <1>1 DEF Inv, Threaded
  <2>3. QED
    BY <1>1, <2>1, <2>2, Moved DEF Goto
<1>3. next \in {"stop", "restart", "idle"}
  OBVIOUS
<1>4. TypeOK'
  BY <1>1, <1>2, <1>3 DEF Inv, TypeOK
<1>5. Threaded'
  BY <1>1, <1>2, <1>3, Members DEF Inv, Threaded, MainPlaces, CallbackPlaces, Closing
<1>6. Attended'
  <2>1. ASSUME ~crossed', NEW u \in Callbacks, NEW v \in Callbacks,
               Exchanging(u)', Exchanging(v)'
        PROVE  u = v
    <3>1. ASSUME NEW w \in Callbacks, Exchanging(w)', w # t PROVE Exchanging(w)
      BY <1>2, <3>1, Members DEF Exchanging
    <3>2. CASE next = "idle"
      <4>1. u # t /\ v # t
        BY <1>2, <2>1, <3>2 DEF Exchanging
      <4>2. QED
        BY <1>1, <2>1, <3>1, <4>1 DEF Inv, Attended
    <3>3. CASE next # "idle"
      BY <1>1, <2>1, <3>1, <3>3
    <3>4. QED
      BY <3>2, <3>3
  <2>2. \A u \in Callbacks : pc'[u] \in Closing \cup Rebinding => pc'[u] = pc[u]
    BY <1>2, <1>3, Members DEF Closing, Rebinding
  <2>3. QED
    BY <1>1, <1>2, <2>1, <2>2 DEF Inv, Attended
<1>7. Follows'
  BY <1>1, <1>2, <1>3, Members DEF Inv, TypeOK, Follows
<1>8. Decided'
  <2> SUFFICES ASSUME ~crossed'
               PROVE  /\ \A u \in Callbacks :
                            /\ pc'[u] = "stop" => emptied'
                            /\ pc'[u] \in {"restart"} \cup Rebinding /\ token = Empty =>
                                  \E v \in Callbacks : pc'[v] \in Deciding
                            /\ pc'[u] = "publish" =>
                                  \/ addr[u] = listen
                                  \/ \E v \in Callbacks : pc'[v] = "decide, moved"
                      /\ srv # None /\ token = Empty =>
                            \E v \in Callbacks : pc'[v] \in Deciding \cup {"stop"}
                      /\ pc[Main] = "run" /\ ~emptied' =>
                            srv # None \/ \E v \in Callbacks : pc'[v] \in Rebinding
                      /\ pc[Main] \in Before /\ srv # None =>
                            \/ server[srv].addr = listen
                            \/ \E v \in Callbacks :
                                  pc'[v] \in {"decide, moved", "restart", "stop"}
    BY <1>1, <1>2 DEF Decided
  <2>0. ~crossed
    BY <1>1
  <2>1. ASSUME NEW u \in Callbacks, pc'[u] = "stop" PROVE emptied'
    <3>1. CASE u = t
      <4>1. token = Empty
        <5>1. next = "stop"
          BY <1>2, <2>1, <3>1
        <5>2. QED
          BY <5>1
      <4>2. QED
        BY <1>1, <4>1
    <3>2. CASE u # t
      BY <1>1, <1>2, <2>0, <2>1, <3>2, Members DEF Inv, Decided
    <3>3. QED
      BY <3>1, <3>2
  <2>2. ASSUME NEW u \in Callbacks, pc'[u] \in {"restart"} \cup Rebinding, token = Empty
        PROVE  FALSE
    <3>1. next = "stop"
      BY <2>2
    <3>2. u # t
      BY <1>2, <2>2, <3>1 DEF Rebinding
    <3>3. pc[u] = pc'[u]
      BY <1>2, <3>2, Members
    <3>4. Exchanging(u)
      BY <2>2, <3>3 DEF Exchanging, Rebinding
    <3>5. QED
      BY <1>1, <3>1, <3>2, <3>4
  <2>3. ASSUME NEW u \in Callbacks, pc'[u] = "publish"
        PROVE  addr[u] = listen \/ \E v \in Callbacks : pc'[v] = "decide, moved"
    <3>1. u # t /\ pc[u] = "publish" /\ Exchanging(u)
      BY <1>2, <1>3, <2>3, Members DEF Exchanging
    <3>2. next = "idle" /\ pc[t] # "decide, moved"
      BY <1>1, <3>1
    <3>3. addr[u] = listen \/ \E v \in Callbacks : pc[v] = "decide, moved"
      BY <2>0, <3>1 DEF Inv, Decided
    <3>4. QED
      BY <1>2, <3>2, <3>3, Members
  <2>4. token = Empty => pc'[t] = "stop"
    BY <1>2
  <2>5. \A u \in Callbacks : pc[u] \in Rebinding => pc'[u] = pc[u]
    BY <1>1, <1>2, Members DEF Rebinding
  <2>6. pc[Main] = "run" /\ ~emptied' =>
           srv # None \/ \E v \in Callbacks : pc'[v] \in Rebinding
    BY <1>1, <2>0, <2>5 DEF Inv, Decided
  <2>7. \A u \in Callbacks : pc[u] \in {"decide, moved", "restart", "stop"} =>
           pc'[u] \in {"decide, moved", "restart", "stop"}
    BY <1>1, <1>2, Members
  <2>8. pc[Main] \in Before /\ srv # None =>
           \/ server[srv].addr = listen
           \/ \E v \in Callbacks : pc'[v] \in {"decide, moved", "restart", "stop"}
    BY <2>0, <2>7 DEF Inv, Decided
  <2>9. QED
    BY <2>1, <2>2, <2>3, <2>4, <2>6, <2>8
<1>9. QED
  BY <1>1, <1>4, <1>5, <1>6, <1>7, <1>8, BrowserUntouched DEF Inv

-----------------------------------------------------------------------------
\* A step that leaves listener, threads and address alone keeps the part of the
\* invariant about them, if the token it leaves is as empty as before.
LEMMA ListenerUntouched ==
    ASSUME Inv, UNCHANGED <<listen, threadVars, emptied>>,
           token' = Empty <=> token = Empty
    PROVE  Threaded' /\ Attended' /\ Decided'
BY DEF threadVars, Inv, Threaded, Attended, Decided, Exchanging

\* The file changes and waits for a reload, or nothing of it and of the token.
LEMMA FileFollows ==
    ASSUME Inv, UNCHANGED <<listen, threadVars>>,
           pending' = TRUE \/ UNCHANGED <<file, token, pending>>
    PROVE  Follows'
BY DEF threadVars, Inv, Follows

\* A request that changes nothing in the server.
LEMMA ReadStep ==
    ASSUME Inv, Untouched, UNCHANGED <<listen, threadVars, emptied>>,
           store' \in Tokens \cup {Nil},
           answers' \subseteq Answer,
           Informed'
    PROVE  Inv'
<1>1. UNCHANGED <<file, cfg, token, pending>>
  BY DEF Untouched
<1>2. TypeOK'
  BY <1>1 DEF Inv, TypeOK
<1>3. Threaded' /\ Attended' /\ Decided'
  BY <1>1, ListenerUntouched
<1>4. Follows'
  BY <1>1, FileFollows
<1>5. QED
  BY <1>2, <1>3, <1>4 DEF Inv

\* An answer that is sent out.
LEMMA AnswerType ==
    ASSUME NEW kind \in Kinds, NEW status \in {200, 401, 500},
           NEW value \in Tokens \cup {Nil}
    PROVE  [kind |-> kind, status |-> status, value |-> value] \in Answer
BY DEF Answer

\* The browser's requests and the edits of the file.
LEMMA RequestStep ==
    ASSUME Inv,
           \/ Poll \/ Rotate
           \/ \E t \in Tokens \cup {Nil}, at \in Addrs : Save(t, at)
           \/ \E t \in Tokens : SignIn(t)
           \/ \E block \in WebBlock : HandEdit(block)
    PROVE  Inv'
<1>0. /\ file \in WebBlock /\ cfg \in WebBlock /\ token \in Tokens \cup {Empty}
      /\ store \in Tokens \cup {Nil} /\ answers \subseteq Answer
  BY DEF Inv, TypeOK
\* An answer without a value, to a request that changes nothing.
<1>1. ASSUME NEW kind \in Kinds, NEW status \in {200, 401},
             Replies(kind, status, Nil), Untouched,
             store' \in Tokens \cup {Nil},
             ~meddled' => ~meddled /\ (store' = store \/ store' = file.token)
      PROVE  Inv'
  <2>1. /\ UNCHANGED <<listen, threadVars, emptied>>
        /\ answers' \subseteq Answer
        /\ answers' = answers \cup {[kind |-> kind, status |-> status, value |-> Nil]}
    BY <1>0, <1>1, AnswerType DEF Replies
  <2>2. file' = file
    BY <1>1 DEF Untouched
  <2>3. Informed'
    BY <1>1, <2>1, <2>2 DEF Inv, Informed
  <2>4. QED
    BY <1>1, <2>1, <2>3, ReadStep
\* A new block in the file, with its answer.
<1>2. ASSUME NEW block \in WebBlock, Written(block),
             token' \in Tokens \cup {Empty}, token' = Empty <=> token = Empty,
             UNCHANGED <<listen, threadVars, emptied, store>>,
             answers' \subseteq Answer, Informed'
      PROVE  Inv'
  <2>1. cfg' = block /\ file' = block /\ pending' = TRUE
    BY <1>2 DEF Written
  <2>2. TypeOK'
    BY <1>2, <2>1 DEF Inv, TypeOK
  <2>3. Threaded' /\ Attended' /\ Decided'
    BY <1>2, ListenerUntouched
  <2>4. Follows'
    BY <1>2, <2>1, FileFollows
  <2>5. QED
    BY <1>2, <2>2, <2>3, <2>4 DEF Inv
\* A block that is refused and stays in memory.
<1>3. ASSUME NEW block \in WebBlock, NotWritten(block), UNCHANGED token,
             UNCHANGED <<listen, threadVars, emptied, store>>,
             answers' \subseteq Answer, Informed'
      PROVE  Inv'
  <2>1. cfg' = block /\ UNCHANGED <<file, pending>>
    BY <1>3 DEF NotWritten
  <2>2. TypeOK'
    BY <1>3, <2>1 DEF Inv, TypeOK
  <2>3. Threaded' /\ Attended' /\ Decided'
    BY <1>3, ListenerUntouched
  <2>4. Follows'
    BY <1>3, <2>1, FileFollows
  <2>5. QED
    BY <1>3, <2>2, <2>3, <2>4 DEF Inv
<1>4. CASE Poll
  <2>1. \E status \in {200, 401} : Replies("poll", status, Nil)
    BY <1>4 DEF Poll, Read
  <2>2. Untouched /\ UNCHANGED <<store, meddled>>
    BY <1>4 DEF Poll, Read
  <2>3. QED
    BY <1>0, <1>1, <2>1, <2>2 DEF Kinds
<1>5. ASSUME NEW t \in Tokens, SignIn(t) PROVE Inv'
  <2>1. \E status \in {200, 401} : Replies("sign in", status, Nil)
    BY <1>5 DEF SignIn, Read
  <2>2. Untouched /\ store' = t /\ meddled' = (meddled \/ t # file.token)
    BY <1>5 DEF SignIn, Read
  <2>3. /\ store' \in Tokens \cup {Nil}
        /\ ~meddled' => ~meddled /\ (store' = store \/ store' = file.token)
    BY <2>2
  <2>4. PICK status \in {200, 401} : Replies("sign in", status, Nil)
    BY <2>1
  <2>5. "sign in" \in Kinds
    BY DEF Kinds
  <2>6. Untouched
    BY <2>2
  <2>7. ASSUME NEW k \in Kinds, Replies(k, status, Nil) PROVE Inv'
    BY <1>1, <2>3, <2>6, <2>7
  <2>8. QED
    BY <2>4, <2>5, <2>7
<1>6. CASE Rotate
  <2>1. ASSUME Authorized(store), NEW t \in Tokens,
               Written([cfg EXCEPT !.token = t]), token' = t,
               Replies("rotate", 200, t), UNCHANGED <<meddled, store>>
        PROVE  Inv'
    <3>1. [cfg EXCEPT !.token = t] \in WebBlock /\ [cfg EXCEPT !.token = t].token = t
      BY <1>0 DEF WebBlock
    <3>2. /\ token # Empty /\ token' # Empty /\ token' \in Tokens
      BY <1>0, <2>1 DEF Authorized
    <3> DEFINE answer == [kind |-> "rotate", status |-> 200, value |-> t]
    <3>3. answer \in Answer
      BY DEF Answer, Kinds
    <3>4. /\ UNCHANGED <<listen, threadVars, emptied>>
          /\ answers' = answers \cup {answer}
          /\ \A a \in answers : a.kind # "rotate"
      BY <2>1 DEF Replies
    <3>5. file'.token = t
      BY <2>1, <3>1 DEF Written
    <3>6. answer.kind = "rotate" /\ answer.status = 200 /\ answer.value = t /\ t # Nil
      OBVIOUS
    <3> HIDE DEF answer
    <3>7. Informed'
      BY <2>1, <3>4, <3>5, <3>6 DEF Inv, Informed
    <3>8. QED
      BY <1>0, <1>2, <2>1, <3>1, <3>2, <3>3, <3>4, <3>7
  <2>2. ASSUME NEW t \in Tokens, NotWritten([cfg EXCEPT !.token = t]),
               Replies("rotate", 500, Nil), meddled', UNCHANGED <<token, store>>
        PROVE  Inv'
    <3>1. [cfg EXCEPT !.token = t] \in WebBlock
      BY <1>0 DEF WebBlock
    <3>2. /\ UNCHANGED <<listen, threadVars, emptied>>
          /\ answers' \subseteq Answer
      <4>1. [kind |-> "rotate", status |-> 500, value |-> Nil] \in Answer
        BY DEF Answer, Kinds
      <4>2. QED
        BY <1>0, <2>2, <4>1 DEF Replies
    <3>3. Informed'
      BY <2>2 DEF Informed
    <3>4. QED
      BY <1>3, <2>2, <3>1, <3>2, <3>3
  <2>3. ASSUME Replies("rotate", 401, Nil), Untouched, UNCHANGED <<meddled, store>>
        PROVE  Inv'
    BY <1>0, <1>1, <2>3 DEF Kinds
  <2>4. QED
    BY <1>6, <2>1, <2>2, <2>3 DEF Rotate
<1>7. ASSUME NEW t \in Tokens \cup {Nil}, NEW at \in Addrs, Save(t, at)
      PROVE  Inv'
  <2> DEFINE block == [token |-> IF t = Nil THEN cfg.token ELSE t, listen |-> at]
  <2>1. block \in WebBlock
    BY <1>0 DEF WebBlock
  <2>2. /\ store' = store
        /\ ~meddled' => /\ ~meddled /\ t = Nil
                        /\ block.token = file.token
    BY <1>7 DEF Save
  <2>3. ASSUME NEW status \in {200, 401, 500}, Replies("save", status, t),
               file'.token = file.token \/ meddled'
        PROVE  Informed'
    <3>1. answers' = answers \cup {[kind |-> "save", status |-> status, value |-> t]}
      BY <2>3 DEF Replies
    <3>2. QED
      BY <2>2, <2>3, <3>1 DEF Inv, Informed
  <2>4. ASSUME Written(block), Replies("save", 200, t), UNCHANGED token
        PROVE  Inv'
    <3>1. file' = block
      BY <2>4 DEF Written
    <3>2. Informed'
      BY <2>2, <2>3, <2>4, <3>1
    <3>3. /\ UNCHANGED <<listen, threadVars, emptied>>
          /\ answers' \subseteq Answer
      <4>1. [kind |-> "save", status |-> 200, value |-> t] \in Answer
        BY DEF Answer, Kinds
      <4>2. QED
        BY <1>0, <2>4, <4>1 DEF Replies
    <3> HIDE DEF block
    <3>4. QED
      BY <1>0, <1>2, <2>1, <2>2, <2>4, <3>2, <3>3
  <2>5. ASSUME NotWritten(block), Replies("save", 500, Nil), UNCHANGED token
        PROVE  Inv'
    <3>1. answers' = answers \cup {[kind |-> "save", status |-> 500, value |-> Nil]}
      BY <2>5 DEF Replies
    <3>2. file' = file
      BY <2>5 DEF NotWritten
    <3>3. Informed'
      BY <2>2, <3>1, <3>2 DEF Inv, Informed
    <3>4. /\ UNCHANGED <<listen, threadVars, emptied>>
          /\ answers' \subseteq Answer
      <4>1. [kind |-> "save", status |-> 500, value |-> Nil] \in Answer
        BY DEF Answer, Kinds
      <4>2. QED
        BY <1>0, <2>5, <4>1 DEF Replies
    <3> HIDE DEF block
    <3>5. QED
      BY <1>3, <2>1, <2>2, <2>5, <3>3, <3>4
  <2>6. ASSUME Replies("save", 401, t), Untouched
        PROVE  Inv'
    <3>1. file' = file
      BY <2>6 DEF Untouched
    <3>2. Informed'
      BY <2>3, <2>6, <3>1
    <3>3. /\ UNCHANGED <<listen, threadVars, emptied>>
          /\ answers' \subseteq Answer
      <4>1. [kind |-> "save", status |-> 401, value |-> t] \in Answer
        BY DEF Answer, Kinds
      <4>2. QED
        BY <1>0, <2>6, <4>1 DEF Replies
    <3>4. QED
      BY <1>0, <2>2, <2>6, <3>2, <3>3, ReadStep
  <2>7. QED
    BY <1>7, <2>4, <2>5, <2>6 DEF Save
<1>8. ASSUME NEW block \in WebBlock, HandEdit(block) PROVE Inv'
  <2>1. /\ UNCHANGED <<cfg, token, listen, threadVars, store, signed, answers,
                       emptied, faults>>
        /\ file' = block /\ pending' = TRUE /\ meddled'
    BY <1>8 DEF HandEdit
  <2>2. TypeOK'
    BY <2>1 DEF Inv, TypeOK
  <2>3. Threaded' /\ Attended' /\ Decided'
    BY <2>1, ListenerUntouched
  <2>4. Follows'
    BY <2>1, FileFollows
  <2>5. Informed'
    BY <2>1 DEF Informed
  <2>6. QED
    BY <2>2, <2>3, <2>4, <2>5 DEF Inv
<1>9. QED
  BY <1>4, <1>5, <1>6, <1>7, <1>8

\* An answer arrives: the browser stores the token it brings, its own, or none.
LEMMA ReceivedStep ==
    ASSUME Inv, NEW a \in answers,
           TokenRejected(a) \/ SignedIn(a) \/ Answered(a) \/ Saved(a)
    PROVE  Inv'
<1>1. /\ UNCHANGED <<file, cfg, token, listen, threadVars, pending, emptied, meddled,
                     changes, faults>>
      /\ answers' = answers \ {a}
  BY DEF TokenRejected, SignedIn, Answered, Saved, Received, reloadVars, cntVars
<1>2. a \in Answer /\ a.value \in Tokens \cup {Nil} /\ store \in Tokens \cup {Nil}
  BY DEF Inv, TypeOK, Answer
<1>3. /\ store' \in {store, a.value, Nil}
      /\ a.kind = "rotate" /\ a.status = 200 /\ a.value # Nil => store' = a.value
  <2>1. CASE TokenRejected(a)
    BY <2>1 DEF TokenRejected
  <2>2. CASE SignedIn(a)
    BY <2>2 DEF SignedIn, Received
  <2>3. CASE Answered(a)
    BY <2>3 DEF Answered
  <2>4. CASE Saved(a)
    BY <2>4 DEF Saved, Received
  <2>5. QED
    BY <2>1, <2>2, <2>3, <2>4
<1>4. TypeOK'
  BY <1>1, <1>2, <1>3 DEF Inv, TypeOK
<1>5. Threaded' /\ Attended' /\ Decided'
  BY <1>1, ListenerUntouched
<1>6. Follows'
  BY <1>1, FileFollows
<1>7. Informed'
  <2> SUFFICES ASSUME ~meddled
               PROVE  /\ \/ store' \in {Nil, file.token}
                         \/ \E b \in answers' : b.value = file.token /\ b.value # Nil
                      /\ \A b \in answers' : b.value # Nil =>
                            b.kind = "rotate" /\ b.value = file.token /\ b.status = 200
    BY <1>1 DEF Informed
  <2>1. /\ \/ store \in {Nil, file.token}
           \/ \E b \in answers : b.value = file.token /\ b.value # Nil
        /\ \A b \in answers : b.value # Nil =>
              b.kind = "rotate" /\ b.value = file.token /\ b.status = 200
    BY DEF Inv, Informed
  <2>2. a.value \in {Nil, file.token}
    BY <2>1
  <2>3. ASSUME NEW b \in answers, b.value = file.token, b.value # Nil
        PROVE  store' \in {Nil, file.token} \/ b \in answers'
    <3>1. CASE b = a
      BY <1>3, <2>1, <2>3, <3>1
    <3>2. CASE b # a
      BY <1>1, <3>2
    <3>3. QED
      BY <3>1, <3>2
  <2>4. QED
    BY <1>1, <1>3, <2>1, <2>2, <2>3
<1>8. QED
  BY <1>4, <1>5, <1>6, <1>7 DEF Inv

LEMMA InvNext == Inv /\ [Next]_vars => Inv'
<1> SUFFICES ASSUME Inv, [Next]_vars PROVE Inv'
  OBVIOUS
<1>1. CASE UNCHANGED vars
  <2>1. UNCHANGED <<file, cfg, token, listen, threadVars, pending, store, signed,
                    answers, meddled, emptied, changes, faults>>
    BY <1>1 DEF vars, reloadVars, browserVars, cntVars
  <2>2. TypeOK'
    BY <2>1 DEF Inv, TypeOK
  <2>3. QED
    BY <2>1, <2>2, ListenerUntouched, FileFollows, BrowserUntouched DEF Inv
<1>2. ASSUME NEW t \in Callbacks,
             Fire(t) \/ Load(t) \/ ReloadSwaps(t) \/ ReloadDecides(t)
      PROVE  Inv'
  BY <1>2, LoadStep, SwapStep, DecideStep
<1>3. ASSUME NEW t \in Threads,
             \/ Bind(t) \/ Publish(t) \/ StopTakes(t) \/ StopCloses(t)
             \/ StopReturns(t)
      PROVE  Inv'
  BY <1>3, BindStep, PublishStep, StopTakesStep, StopClosesStep, StopReturnsStep
<1>4. QED
  BY <1>1, <1>2, <1>3, MainStep, ListenStep, RequestStep, ReceivedStep DEF Next

\* The inductive invariant of the server and its browser.
THEOREM Invariance == Spec => []Inv
BY InvInit, InvNext, PTL DEF Spec

\* Every variable keeps its type; the token in force is never a missing one.
THEOREM TypeCorrect == Spec => []TypeOK
<1>1. Inv => TypeOK
  BY DEF Inv
<1>2. QED
  BY <1>1, Invariance, PTL

\* While no two callbacks restart or stop the server at a time: at most one
\* server listens until the shutdown, and Stop finds every server.
THEOREM NoServerLeftBehind == Spec => []OneListener
<1>1. ASSUME Inv PROVE OneListener
  <2>1. ASSUME ~crossed, pc[Main] \in Before
        PROVE  Cardinality({s \in Servers : Serving(s)}) <= 1
    <3> DEFINE set == {s \in Servers : Serving(s)}
    <3>1. \A t \in Threads : victim[t] # None =>
             t \in Callbacks /\ Exchanging(t) /\ srv = None
      BY <1>1, <2>1
         DEF Inv, Threaded, Attended, Threads, Before, Closing, Exchanging
    <3>2. \A t, u \in Threads : victim[t] # None /\ victim[u] # None => t = u
      BY <1>1, <2>1, <3>1 DEF Inv, Attended
    <3>3. \A s \in set : s = srv \/ \E t \in Threads : victim[t] = s
      BY <1>1, <2>1 DEF Inv, Attended, Serving
    <3>4. \A s, r \in set : s = r
      BY <3>1, <3>2, <3>3
    <3>5. CASE set = {}
      BY <3>5, FS_EmptySet
    <3>6. CASE set # {}
      <4>1. PICK s \in set : TRUE
        BY <3>6
      <4>2. set = {s}
        BY <3>4, <4>1
      <4>3. Cardinality({s}) = 1
        BY FS_Singleton
      <4>4. Cardinality(set) = 1
        BY <4>2, <4>3, Zenon
      <4>5. QED
        BY <4>4
    <3>7. QED
      BY <3>5, <3>6
  <2>2. ~crossed => \A s \in Servers :
           server[s].life \in {"new", "serving"} =>
               srv = s \/ \E t \in Threads : victim[t] = s
    BY <1>1 DEF Inv, Attended
  <2>3. QED
    BY <2>1, <2>2 DEF OneListener, Before
<1>2. QED
  BY <1>1, Invariance, PTL

\* Between reloads token and address are those of the file, unless an older
\* callback has swapped last; and unless two callbacks have restarted or
\* stopped the server at a time, a listener is, or is about to be, at the
\* address if there is a token.
THEOREM ServerFollowsFile == Spec => []ServesAsConfigured
<1>1. ASSUME Inv, Quiet PROVE ServesAsConfigured
  <2>1. \A t \in Callbacks : pc[t] \notin Deciding \cup Rebinding \cup {"load", "stop", "restart"}
    BY <1>1 DEF Quiet, Deciding, Rebinding
  <2>2. pc[last] # "swap"
    BY <1>1 DEF Quiet, Inv, TypeOK, Threads
  <2>3. ~overtaken => listen = file.listen /\ (file.token # Nil => token = file.token)
    BY <1>1, <2>1, <2>2 DEF Quiet, Inv, Follows
  <2>4. ~crossed =>
           /\ token = Empty => srv = None
           /\ token # Empty /\ ~emptied => srv # None
           /\ srv # None => server[srv].addr = listen
    BY <1>1, <2>1 DEF Quiet, Inv, Decided, Before, Deciding
  <2>5. ~crossed /\ srv # None => server[srv].life # "clashed"
    BY <1>1 DEF Quiet, Inv, TypeOK, Attended, Before
  <2>6. QED
    BY <2>3, <2>4, <2>5 DEF ServesAsConfigured
<1>2. Inv => ServesAsConfigured
  BY <1>1 DEF ServesAsConfigured
<1>3. QED
  BY <1>2, Invariance, PTL

\* A browser in the main section holds the token in force, or none, unless an
\* older callback has swapped last.
THEOREM BrowserFollowsServer == Spec => []BrowserHoldsTheToken
<1>1. Inv => BrowserHoldsTheToken
  BY DEF Inv, TypeOK, Threads, Follows, Informed, BrowserHoldsTheToken, Quiet
<1>2. QED
  BY <1>1, Invariance, PTL

=============================================================================
