----------------------------- MODULE HttpProofs -----------------------------
(***************************************************************************)
(* The HTTP server, with any number of threads that serve any requests,    *)
(* does to its node only what module Blockchain allows, and mines no more  *)
(* than the cooldown and the number of threads let it.                     *)
(***************************************************************************)
EXTENDS Http, BlockchainProofs

-----------------------------------------------------------------------------
(* Requests *)

\* A request as it is served: its route, its address, and where it stands.
Shape(r) ==
  /\ DOMAIN r = {"route", "address", "item", "at", "saw", "reorganised"}
  /\ r.route \in DOMAIN Steps /\ r.address \in Accounts
  /\ r.route = "send" => r.item \in Txs
  /\ r.at \in Nat \ {0}

Served(r) == Shape(r) /\ r.at <= Len(Steps[r.route])

RequestInv ==
  /\ request = [t \in Threads |-> request[t]]
  /\ \A t \in Threads : request[t] = Idle \/ Served(request[t])

LEMMA StepsLength ==
  ASSUME NEW route \in DOMAIN Steps
  PROVE  Len(Steps[route]) \in Nat /\ 1 <= Len(Steps[route])
<1>1. route \in {"chain", "balance", "walletTransactions", "mine", "send", "import"}
  BY DEF Steps
<1>2. CASE route \in {"chain", "import"}
  BY <1>2 DEF Steps, handleGetChain, handleImportWallet
<1>3. CASE route \in {"balance", "walletTransactions"}
  BY <1>3 DEF Steps, handleGetWalletBalance, handleGetWalletTransactions
<1>4. CASE route = "mine"
  BY <1>4 DEF Steps, handleMine
<1>5. CASE route = "send"
  BY <1>5 DEF Steps, handleSendTransaction
<1> QED
  BY <1>1, <1>2, <1>3, <1>4, <1>5

LEMMA ShapeNotIdle == \A r : Shape(r) => r # Idle
BY DEF Shape, Idle, Steps

\* At which steps of which handlers the calls are made that need the request.
LEMMA StepRoutes ==
  ASSUME NEW r, Served(r)
  PROVE  /\ Steps[r.route][r.at] = "cooldown" => r.route = "mine" /\ r.at = 1
         /\ Steps[r.route][r.at] = "mine" => r.route = "mine" /\ r.at = 3
         /\ Steps[r.route][r.at] = "record" => r.route = "mine" /\ r.at = 4
         /\ r.route = "mine" /\ Steps[r.route][r.at] \notin {"cooldown", "mine", "record"}
              => r.at \in {2, 5, 6}
         /\ Steps[r.route][r.at] = "add" => r.route = "send"
         /\ Steps[r.route][r.at] = "receiver" => r.route = "send"
         /\ r.route = "mine" => Len(Steps[r.route]) = 6
<1>1. CASE r.route \in {"chain", "balance", "walletTransactions", "import"}
  BY <1>1 DEF Served, Shape, Steps, handleGetChain, handleGetWalletBalance,
     handleGetWalletTransactions, handleImportWallet
<1>2. CASE r.route = "mine"
  BY <1>2 DEF Served, Shape, Steps, handleMine
<1>3. CASE r.route = "send"
  BY <1>3 DEF Served, Shape, Steps, handleSendTransaction
<1> QED
  BY <1>1, <1>2, <1>3 DEF Served, Shape, Steps

\* The thread that takes a step goes on with its request or is idle, and the
\* others are where they were.
OneMoves(t, r) ==
  /\ request' = [u \in Threads |-> request'[u]]
  /\ request'[t] = r \/ request'[t] = Idle
  /\ \A u \in Threads \ {t} : request'[u] = request[u]

LEMMA GoOnWith ==
  ASSUME RequestInv, NEW t \in Threads, NEW r, Shape(r), goOnWith(t, r)
  PROVE  /\ OneMoves(t, r) /\ RequestInv'
         /\ r.at <= Len(Steps[r.route]) => request'[t] = r
<1>1. /\ request' = [u \in Threads |-> request'[u]]
      /\ \A u \in Threads \ {t} : request'[u] = request[u]
      /\ request'[t] = IF r.at > Len(Steps[r.route]) THEN Idle ELSE r
  BY DEF goOnWith, RequestInv
<1>2. r.at > Len(Steps[r.route]) \/ Served(r)
  BY StepsLength DEF Shape, Served
<1>3. r.at <= Len(Steps[r.route]) => request'[t] = r
  BY <1>1, StepsLength DEF Shape
<1> QED
  BY <1>1, <1>2, <1>3 DEF OneMoves, RequestInv

LEMMA Refuse ==
  ASSUME RequestInv, NEW t \in Threads, NEW r, refuse(t)
  PROVE  OneMoves(t, r) /\ RequestInv'
BY DEF refuse, OneMoves, RequestInv

LEMMA AtStepServed ==
  ASSUME RequestInv, NEW t \in Threads, NEW step, AtStep(t, step)
  PROVE  Served(request[t]) /\ Steps[request[t].route][request[t].at] = step
BY DEF AtStep, Serving, RequestInv

\* The request after its next step.
Next1(t) == [request[t] EXCEPT !.at = @ + 1]

LEMMA GoOn ==
  ASSUME RequestInv, NEW t \in Threads, Served(request[t]), goOn(t)
  PROVE  /\ OneMoves(t, Next1(t)) /\ RequestInv'
         /\ Next1(t).at = request[t].at + 1
         /\ Next1(t).route = request[t].route /\ Next1(t).address = request[t].address
         /\ request[t].at < Len(Steps[request[t].route]) => request'[t] = Next1(t)
<1>1. Shape(Next1(t))
  BY DEF Next1, Served, Shape
<1>2. /\ Next1(t).at = request[t].at + 1
      /\ Next1(t).route = request[t].route /\ Next1(t).address = request[t].address
  BY DEF Next1, Served, Shape
<1>3. goOnWith(t, Next1(t))
  BY DEF goOn, Next1
<1>4. request[t].at < Len(Steps[request[t].route])
        => Next1(t).at <= Len(Steps[Next1(t).route])
  BY <1>2, StepsLength DEF Served, Shape
<1> QED
  BY <1>1, <1>2, <1>3, <1>4, GoOnWith

LEMMA ReadMoves ==
  ASSUME RequestInv, NEW t \in Threads, read(t)
  PROVE  /\ Served(request[t])
         /\ Steps[request[t].route][request[t].at]
              \in {"length", "chain", "mempool", "balance", "nonce", "history"}
         /\ RequestInv'
         /\ \E s : OneMoves(t, [request[t] EXCEPT !.at = @ + 1, !.saw = s])
<1>1. PICK kind \in {"length", "chain", "mempool", "balance", "nonce", "history"} :
        /\ AtStep(t, kind)
        /\ goOnWith(t, [request[t] EXCEPT
              !.at = @ + 1,
              !.saw = With(@, kind, Values(request[t].address)[kind])])
  BY DEF read
<1>2. Served(request[t]) /\ Steps[request[t].route][request[t].at] = kind
  BY <1>1, AtStepServed
<1> DEFINE s == With(request[t].saw, kind, Values(request[t].address)[kind])
           r == [request[t] EXCEPT !.at = @ + 1, !.saw = s]
<1>3. goOnWith(t, r)
  BY <1>1, <1>2 DEF Served, Shape
<1> HIDE DEF s
<1>4. Shape(r)
  BY <1>2 DEF Served, Shape
<1>5. OneMoves(t, r) /\ RequestInv'
  BY <1>3, <1>4, GoOnWith
<1> QED
  BY <1>2, <1>5

-----------------------------------------------------------------------------
(* The steps of the server as steps of its node *)

LEMMA RequestInvNext == RequestInv /\ [HttpNext]_httpVars => RequestInv'
<1> SUFFICES ASSUME RequestInv, [HttpNext]_httpVars PROVE RequestInv'
  OBVIOUS
<1>1. ASSUME NEW t \in Threads, receive(t) PROVE RequestInv'
  <2>1. PICK r \in RequestsOf[t] :
          request' = [request EXCEPT ![t] =
            [route |-> r.route, address |-> r.address, item |-> r.item, at |-> 1,
             saw |-> <<>>, reorganised |-> FALSE]]
    BY <1>1 DEF receive
  <2>2. r \in Requests
    BY ServerAssumption
  <2>3. r.route \in DOMAIN Steps /\ r.address \in Accounts
        /\ (r.route = "send" => r.item \in Txs)
    BY <2>2, TxsAssumption DEF Requests, Steps
  <2> DEFINE q == [route |-> r.route, address |-> r.address, item |-> r.item, at |-> 1,
                   saw |-> <<>>, reorganised |-> FALSE]
  <2>4. Shape(q)
    BY <2>3 DEF Shape
  <2>5. q.at <= Len(Steps[q.route])
    BY <2>3, StepsLength
  <2>6. Served(q)
    BY <2>4, <2>5 DEF Served
  <2> HIDE DEF q
  <2>7. request' = [request EXCEPT ![t] = q]
    BY <2>1 DEF q
  <2> QED
    BY <2>6, <2>7 DEF RequestInv
<1>2. ASSUME NEW t \in Threads, read(t) PROVE RequestInv'
  BY <1>2, ReadMoves
<1>3. ASSUME NEW t \in Threads, know(t) \/ mine(t) \/ recordMine(t) PROVE RequestInv'
  BY <1>3, AtStepServed, GoOn DEF know, mine, recordMine
<1>4. ASSUME NEW t \in Threads,
             \/ checkCooldown(t) \/ checkReceiverHistory(t) \/ checkFunds(t) \/ add(t)
      PROVE  RequestInv'
  BY <1>4, AtStepServed, GoOn, Refuse DEF checkCooldown, checkReceiverHistory, checkFunds, add
<1>5. ASSUME NEW t \in Threads, checkReceiver(t) PROVE RequestInv'
  <2>1. PICK k \in {request[t].at + 1, request[t].at + 2} :
          goOnWith(t, [request[t] EXCEPT !.at = k])
    BY <1>5, AtStepServed DEF checkReceiver, Served, Shape
  <2>2. Shape([request[t] EXCEPT !.at = k])
    BY <1>5, AtStepServed DEF checkReceiver, Served, Shape
  <2> QED
    BY <2>1, <2>2, GoOnWith
<1>6. CASE Elsewhere
  <2>1. ASSUME NEW t \in Threads
        PROVE  request'[t] = request[t]
                 \/ (request[t] # Idle /\ request'[t] = [request[t] EXCEPT !.reorganised = TRUE])
    BY <1>6 DEF Elsewhere, Reorganised, Serving
  <2>2. ASSUME NEW t \in Threads PROVE request'[t] = Idle \/ Served(request'[t])
    BY <2>1 DEF RequestInv, Served, Shape
  <2>3. request' = [t \in Threads |-> request'[t]]
    BY <1>6 DEF Elsewhere, Reorganised
  <2> QED
    BY <2>2, <2>3 DEF RequestInv
<1>7. CASE RestartServer
  BY <1>7 DEF RestartServer, RequestInv
<1>8. CASE UptimeTick \/ UNCHANGED httpVars
  BY <1>8 DEF UptimeTick, httpVars, RequestInv
<1> QED
  BY <1>1, <1>2, <1>3, <1>4, <1>5, <1>6, <1>7, <1>8 DEF HttpNext

LEMMA ServerStep == RequestInv /\ [HttpNext]_httpVars => [Next]_vars
<1> SUFFICES ASSUME RequestInv, [HttpNext]_httpVars PROVE [Next]_vars
  OBVIOUS
<1>1. ASSUME NEW t \in Threads, mine(t) PROVE Next
  <2>1. request[t].address \in Accounts
    BY <1>1, AtStepServed DEF mine, Served, Shape
  <2> QED
    BY <1>1, <2>1, ServerAssumption DEF mine, Next
<1>2. ASSUME NEW t \in Threads, add(t) PROVE [Next]_vars
  <2>0. Served(request[t]) /\ request[t].route = "send"
    BY <1>2, AtStepServed, StepRoutes DEF add
  <2>1. request[t].item \in Txs
    BY <2>0 DEF Served, Shape
  <2>2. CASE addTransaction(Server, request[t].item)
    BY <2>1, <2>2, ServerAssumption DEF Next
  <2> QED
    BY <1>2, <2>2 DEF add
<1>3. ASSUME NEW t \in Threads,
             \/ receive(t) \/ read(t) \/ know(t) \/ checkCooldown(t) \/ recordMine(t)
             \/ checkReceiver(t) \/ checkReceiverHistory(t) \/ checkFunds(t)
      PROVE  UNCHANGED vars
  BY <1>3 DEF receive, read, know, checkCooldown, recordMine, checkReceiver,
     checkReceiverHistory, checkFunds
<1>4. CASE Elsewhere
  BY <1>4, ServerAssumption DEF Elsewhere, Next
<1>5. CASE RestartServer
  BY <1>5, ServerAssumption DEF RestartServer, Next
<1>6. CASE UptimeTick \/ UNCHANGED httpVars
  BY <1>6 DEF UptimeTick, httpVars
<1> QED
  BY <1>1, <1>2, <1>3, <1>4, <1>5, <1>6 DEF HttpNext

LEMMA RequestInvInit == HttpInit => RequestInv
BY DEF HttpInit, RequestInv

-----------------------------------------------------------------------------
(* The cooldown *)

\* Thread t mines for a: it has passed the check, or it has mined and not yet
\* recorded it.
Mining(t, a) == request[t] # Idle /\ request[t].route = "mine" /\ request[t].address = a
Checked(t, a) == Mining(t, a) /\ request[t].at \in {2, 3}
Recording(t, a) == Mining(t, a) /\ request[t].at = 4

Entries == [thread : Threads, at : Nat]

ClockInv ==
  /\ uptime \in Nat
  /\ \A a \in DOMAIN lastMineAt : lastMineAt[a] \in 0..uptime
  /\ minedAt \in [Addresses -> Seq(Entries)]
  /\ \A a \in Addresses : \A i \in DOMAIN minedAt[a] : minedAt[a][i].at <= uptime

\* A block that was mined is recorded, or its thread is about to record it.
RecordInv ==
  \A a \in Addresses : \A i \in DOMAIN minedAt[a] :
    \/ a \in DOMAIN lastMineAt /\ lastMineAt[a] >= minedAt[a][i].at
    \/ Recording(minedAt[a][i].thread, a)

\* A thread that passed the check, and has not mined yet, mined nothing for the
\* miner within the cooldown.
CheckedInv ==
  \A a \in Addresses, t \in Threads :
    Checked(t, a) =>
      \A i \in DOMAIN minedAt[a] :
        minedAt[a][i].thread = t => minedAt[a][i].at + Cooldown <= uptime

CooldownInv == RequestInv /\ ClockInv /\ RecordInv /\ CheckedInv /\ CooldownBound

LEMMA EntryType ==
  ASSUME ClockInv, NEW a \in Addresses, NEW i \in DOMAIN minedAt[a]
  PROVE  /\ minedAt[a][i].thread \in Threads /\ minedAt[a][i].at \in Nat
         /\ minedAt[a][i].at <= uptime
<1>1. minedAt[a] \in Seq(Entries)
  BY DEF ClockInv
<1>2. minedAt[a][i] \in Entries
  BY <1>1
<1> QED
  BY <1>2 DEF ClockInv, Entries

\* Steps that mine nothing and record nothing, and after which no request stands
\* further in handleMine than it did, except where neither part says anything.
LEMMA Unrelated ==
  ASSUME CooldownInv, RequestInv', UNCHANGED <<lastMineAt, minedAt>>,
         uptime' \in Nat, uptime' >= uptime,
         \A a \in Addresses, t \in Threads :
           /\ Recording(t, a) => Recording(t, a)'
           /\ Checked(t, a)' => Checked(t, a)
  PROVE  CooldownInv'
<1>1. ASSUME NEW a \in Addresses, NEW i \in DOMAIN minedAt[a]
      PROVE  /\ minedAt[a][i].thread \in Threads /\ minedAt[a][i].at \in Nat
             /\ minedAt[a][i].at <= uptime
  BY EntryType DEF CooldownInv
<1>2. ClockInv'
  <2>1. uptime \in Nat /\ uptime' \in Nat /\ uptime <= uptime'
    BY DEF CooldownInv, ClockInv
  <2>2. \A a \in DOMAIN lastMineAt' : lastMineAt'[a] \in 0..uptime'
    BY <2>1 DEF CooldownInv, ClockInv
  <2>3. minedAt' \in [Addresses -> Seq(Entries)]
    BY DEF CooldownInv, ClockInv
  <2>4. \A a \in Addresses : \A i \in DOMAIN minedAt'[a] : minedAt'[a][i].at <= uptime'
    BY <1>1, <2>1
  <2> QED
    BY <2>1, <2>2, <2>3, <2>4 DEF ClockInv
<1>3. RecordInv'
  BY <1>1 DEF CooldownInv, RecordInv
<1>4. CheckedInv'
  BY <1>1, ServerAssumption DEF CooldownInv, CheckedInv, ClockInv
<1>5. CooldownBound'
  BY DEF CooldownInv, CooldownBound
<1> QED
  BY <1>2, <1>3, <1>4, <1>5 DEF CooldownInv

\* The same for a step in which one thread goes on from a step of its handler
\* that is not the check, the mining or the recording.
LEMMA UnrelatedStep ==
  ASSUME CooldownInv, RequestInv', UNCHANGED <<uptime, lastMineAt, minedAt>>,
         NEW t \in Threads, Served(request[t]), NEW r, OneMoves(t, r),
         r.route = request[t].route, r.address = request[t].address,
         r.route = "mine" =>
           request[t].at \in {2, 5, 6} /\ r.at = request[t].at + 1
  PROVE  CooldownInv'
<1>1. ASSUME NEW a \in Addresses, NEW u \in Threads
      PROVE  /\ Recording(u, a) => Recording(u, a)'
             /\ Checked(u, a)' => Checked(u, a)
  <2>1. CASE u # t
    BY <2>1 DEF OneMoves, Recording, Checked, Mining
  <2>2. CASE u = t /\ request'[t] = Idle
    BY <2>2 DEF Recording, Checked, Mining
  <2>3. CASE u = t /\ request'[t] = r
    BY <2>3, ShapeNotIdle DEF Recording, Checked, Mining, Served
  <2> QED
    BY <2>1, <2>2, <2>3 DEF OneMoves
<1>2. uptime' \in Nat /\ uptime' >= uptime
  BY DEF CooldownInv, ClockInv
<1> QED
  BY <1>1, <1>2, Unrelated

LEMMA CooldownCheck ==
  ASSUME CooldownInv, RequestInv', NEW t \in Threads, checkCooldown(t)
  PROVE  CooldownInv'
<1>0. RequestInv
  BY DEF CooldownInv
<1>1. /\ Served(request[t]) /\ request[t].route = "mine" /\ request[t].at = 1
      /\ Len(Steps[request[t].route]) = 6
  BY AtStepServed, StepRoutes DEF checkCooldown, CooldownInv
<1> DEFINE b == request[t].address
<1>2. b \in Addresses
  BY <1>1 DEF Served, Shape, Addresses
<1>3. uptime' = uptime /\ lastMineAt' = lastMineAt /\ minedAt' = minedAt
  BY DEF checkCooldown, serverVars
<1>4. \A u \in Threads \ {t} : request'[u] = request[u]
  BY <1>1, Refuse, GoOn DEF checkCooldown, CooldownInv, OneMoves
<1>5. request'[t] = Idle \/ (~cooling(b) /\ request'[t] = Next1(t))
  <2>1. CASE refuse(t)
    BY <2>1, <1>0 DEF refuse, RequestInv
  <2>2. CASE ~cooling(b) /\ goOn(t)
    <3>1. request[t].at < Len(Steps[request[t].route]) /\ goOn(t)
      BY <1>1, <2>2
    <3> QED
      BY <1>0, <1>1, <2>2, <3>1, GoOn
  <2> QED
    BY <2>1, <2>2 DEF checkCooldown
<1>6. Next1(t).at = 2 /\ Next1(t).address = b
  BY <1>1 DEF Next1, Served, Shape
<1>7. ASSUME NEW a \in Addresses, NEW i \in DOMAIN minedAt[a]
      PROVE  /\ minedAt[a][i].thread \in Threads /\ minedAt[a][i].at \in Nat
             /\ minedAt[a][i].at <= uptime
  BY EntryType DEF CooldownInv
<1>8. ASSUME NEW a \in Addresses, NEW u \in Threads
      PROVE  /\ Recording(u, a) => Recording(u, a)'
             /\ Checked(u, a)' => Checked(u, a) \/ (u = t /\ a = b /\ ~cooling(b))
  BY <1>1, <1>4, <1>5, <1>6 DEF Recording, Checked, Mining
<1>9. ClockInv' /\ CooldownBound'
  BY <1>3 DEF ClockInv, CooldownBound, CooldownInv
<1>10. RecordInv'
  BY <1>3, <1>7, <1>8 DEF RecordInv, CooldownInv
<1>11. CheckedInv'
  <2>1. ASSUME ~cooling(b), NEW i \in DOMAIN minedAt[b], minedAt[b][i].thread = t
        PROVE  minedAt[b][i].at + Cooldown <= uptime
    <3>1. ~Recording(t, b)
      BY <1>1 DEF Recording
    <3>2. b \in DOMAIN lastMineAt /\ lastMineAt[b] >= minedAt[b][i].at
      BY <1>2, <2>1, <3>1 DEF RecordInv, CooldownInv
    <3>3. lastMineAt[b] \in Nat /\ uptime \in Nat /\ minedAt[b][i].at \in Nat
      BY <1>2, <1>7, <3>2 DEF ClockInv, CooldownInv
    <3>4. ~(uptime - lastMineAt[b] < Cooldown)
      BY <2>1, <3>2 DEF cooling
    <3> QED
      BY <3>2, <3>3, <3>4, ServerAssumption
  <2> HIDE DEF b
  <2> QED
    BY <1>2, <1>3, <1>8, <2>1 DEF CheckedInv, CooldownInv
<1> QED
  BY <1>9, <1>10, <1>11 DEF CooldownInv

\* The block is mined: the one step that adds to minedAt.
LEMMA CooldownMine ==
  ASSUME CooldownInv, RequestInv', NEW t \in Threads, mine(t)
  PROVE  CooldownInv'
<1> DEFINE b == request[t].address
           e == [thread |-> t, at |-> uptime]
<1>0. RequestInv /\ ClockInv
  BY DEF CooldownInv
<1>1. /\ Served(request[t]) /\ request[t].route = "mine" /\ request[t].at = 3
      /\ Len(Steps[request[t].route]) = 6
  BY <1>0, AtStepServed, StepRoutes DEF mine
<1>2. b \in Addresses
  BY <1>1 DEF Served, Shape, Addresses
<1>3. uptime' = uptime /\ lastMineAt' = lastMineAt
  BY DEF mine, serverVars
<1>4. minedAt' = [minedAt EXCEPT ![b] = Append(@, e)]
  BY DEF mine
<1>5. /\ \A u \in Threads \ {t} : request'[u] = request[u]
      /\ request'[t] = Next1(t)
      /\ Next1(t).at = 4 /\ Next1(t).route = "mine" /\ Next1(t).address = b
  <2>1. request[t].at < Len(Steps[request[t].route]) /\ goOn(t)
    BY <1>1 DEF mine
  <2>2. /\ OneMoves(t, Next1(t)) /\ request'[t] = Next1(t)
        /\ Next1(t).at = request[t].at + 1
        /\ Next1(t).route = request[t].route /\ Next1(t).address = request[t].address
    BY <1>0, <1>1, <2>1, GoOn
  <2> QED
    BY <1>1, <2>2 DEF OneMoves
<1>6. request'[t] # Idle
  BY <1>1, <1>5, ShapeNotIdle DEF Next1, Served, Shape
<1>7. ASSUME NEW a \in Addresses, NEW i \in DOMAIN minedAt[a]
      PROVE  /\ minedAt[a][i].thread \in Threads /\ minedAt[a][i].at \in Nat
             /\ minedAt[a][i].at <= uptime
  BY <1>0, EntryType
<1>8. ASSUME NEW a \in Addresses, NEW u \in Threads
      PROVE  /\ Recording(u, a) => Recording(u, a)'
             /\ Checked(u, a)' => Checked(u, a) /\ u # t
  BY <1>1, <1>5 DEF Recording, Checked, Mining
<1>9. Checked(t, b)
  BY <1>1, ShapeNotIdle DEF Checked, Mining, Served
<1>10. /\ uptime \in Nat /\ e \in Entries
       /\ minedAt[b] \in Seq(Entries) /\ minedAt \in [Addresses -> Seq(Entries)]
  BY <1>0, <1>2 DEF ClockInv, Entries
<1> HIDE DEF b, e
<1>11. /\ minedAt' \in [Addresses -> Seq(Entries)]
       /\ \A a \in Addresses \ {b} : minedAt'[a] = minedAt[a]
       /\ minedAt'[b] = Append(minedAt[b], e)
  BY <1>2, <1>4, <1>10
<1>12. /\ Len(minedAt[b]) \in Nat /\ DOMAIN minedAt[b] = 1..Len(minedAt[b])
       /\ DOMAIN minedAt'[b] = 1..(Len(minedAt[b]) + 1)
       /\ \A i \in DOMAIN minedAt[b] : minedAt'[b][i] = minedAt[b][i]
       /\ minedAt'[b][Len(minedAt[b]) + 1] = e
  BY <1>10, <1>11
\* Every entry is an old one, or the new one.
<1>13. ASSUME NEW a \in Addresses, NEW i \in DOMAIN minedAt'[a]
       PROVE  \/ i \in DOMAIN minedAt[a] /\ minedAt'[a][i] = minedAt[a][i]
              \/ a = b /\ minedAt'[a][i] = e /\ i = Len(minedAt[b]) + 1
  BY <1>11, <1>12
<1>14. e.thread = t /\ e.at = uptime
  BY DEF e
<1>15. ClockInv'
  <2>1. \A a \in Addresses : \A i \in DOMAIN minedAt'[a] : minedAt'[a][i].at <= uptime
    BY <1>7, <1>10, <1>13, <1>14
  <2> QED
    BY <1>0, <1>3, <1>11, <2>1 DEF ClockInv
<1>16. RecordInv'
  <2> SUFFICES ASSUME NEW a \in Addresses, NEW i \in DOMAIN minedAt'[a]
               PROVE  \/ a \in DOMAIN lastMineAt /\ lastMineAt[a] >= minedAt'[a][i].at
                      \/ Recording(minedAt[a][i].thread, a)'
    BY <1>3 DEF RecordInv
  <2>1. CASE a = b /\ minedAt'[a][i] = e
    BY <1>5, <1>6, <1>14, <2>1 DEF Recording, Mining
  <2>2. CASE i \in DOMAIN minedAt[a] /\ minedAt'[a][i] = minedAt[a][i]
    <3>1. \/ a \in DOMAIN lastMineAt /\ lastMineAt[a] >= minedAt[a][i].at
          \/ Recording(minedAt[a][i].thread, a)
      BY <2>2 DEF RecordInv, CooldownInv
    <3>2. Recording(minedAt[a][i].thread, a) => Recording(minedAt[a][i].thread, a)'
      <4> DEFINE u == minedAt[a][i].thread
      <4>1. u \in Threads /\ minedAt'[a][i].thread = u
        BY <1>7, <2>2
      <4> HIDE DEF u
      <4>2. Recording(u, a) => request'[u] # Idle /\ request'[u].route = "mine"
                                 /\ request'[u].address = a /\ request'[u].at = 4
        BY <1>8, <4>1 DEF Recording, Mining
      <4> QED
        BY <4>1, <4>2 DEF Recording, Mining, u
    <3> QED
      BY <2>2, <3>1, <3>2
  <2> QED
    BY <1>13, <2>1, <2>2
<1>17. CheckedInv'
  <2> SUFFICES ASSUME NEW a \in Addresses, NEW u \in Threads, Checked(u, a)',
                      NEW i \in DOMAIN minedAt'[a], minedAt'[a][i].thread = u
               PROVE  minedAt'[a][i].at + Cooldown <= uptime
    BY <1>3 DEF CheckedInv
  <2>1. Checked(u, a) /\ u # t
    BY <1>8
  <2>2. i \in DOMAIN minedAt[a] /\ minedAt'[a][i] = minedAt[a][i]
    BY <1>13, <1>14, <2>1
  <2> QED
    BY <2>1, <2>2 DEF CheckedInv, CooldownInv
<1>18. CooldownBound'
  <2> SUFFICES ASSUME NEW a \in Addresses, NEW i \in DOMAIN minedAt'[a],
                      NEW j \in DOMAIN minedAt'[a], i < j,
                      minedAt'[a][i].thread = minedAt'[a][j].thread
               PROVE  minedAt'[a][j].at >= minedAt'[a][i].at + Cooldown
    BY DEF CooldownBound
  <2>1. CASE a # b
    BY <1>11, <2>1 DEF CooldownBound, CooldownInv
  <2>2. CASE a = b /\ j = Len(minedAt[b]) + 1
    <3>1. i \in DOMAIN minedAt[b] /\ minedAt'[b][i] = minedAt[b][i] /\ minedAt'[b][j] = e
      BY <1>12, <2>2
    <3>2. minedAt[b][i].at + Cooldown <= uptime
      BY <1>2, <1>9, <1>14, <2>2, <3>1 DEF CheckedInv, CooldownInv
    <3>3. minedAt[b][i].at \in Nat
      BY <1>2, <1>7, <3>1
    <3> QED
      BY <1>10, <1>14, <2>2, <3>1, <3>2, <3>3, ServerAssumption
  <2>3. CASE a = b /\ j # Len(minedAt[b]) + 1
    <3>1. /\ i \in DOMAIN minedAt[b] /\ minedAt'[b][i] = minedAt[b][i]
          /\ j \in DOMAIN minedAt[b] /\ minedAt'[b][j] = minedAt[b][j]
      BY <1>12, <2>3
    <3> QED
      BY <2>3, <3>1 DEF CooldownBound, CooldownInv
  <2> QED
    BY <2>1, <2>2, <2>3
<1> QED
  BY <1>15, <1>16, <1>17, <1>18 DEF CooldownInv

\* The time is recorded, by then or later than the block was mined.
LEMMA CooldownRecord ==
  ASSUME CooldownInv, RequestInv', NEW t \in Threads, recordMine(t)
  PROVE  CooldownInv'
<1> DEFINE b == request[t].address
<1>0. RequestInv /\ ClockInv
  BY DEF CooldownInv
<1>1. /\ Served(request[t]) /\ request[t].route = "mine" /\ request[t].at = 4
  BY <1>0, AtStepServed, StepRoutes DEF recordMine
<1>2. /\ uptime' = uptime /\ minedAt' = minedAt
      /\ lastMineAt' = [a \in DOMAIN lastMineAt \cup {b} |->
                          IF a = b THEN uptime ELSE lastMineAt[a]]
  BY DEF recordMine, With
<1>3. /\ \A u \in Threads \ {t} : request'[u] = request[u]
      /\ request'[t] = Next1(t) \/ request'[t] = Idle
      /\ Next1(t).at = 5
  <2>1. /\ OneMoves(t, Next1(t)) /\ Next1(t).at = request[t].at + 1
    BY <1>0, <1>1, GoOn DEF recordMine
  <2> QED
    BY <1>1, <2>1 DEF OneMoves
<1>4. ASSUME NEW a \in Addresses, NEW i \in DOMAIN minedAt[a]
      PROVE  /\ minedAt[a][i].thread \in Threads /\ minedAt[a][i].at \in Nat
             /\ minedAt[a][i].at <= uptime
  BY <1>0, EntryType
<1>5. /\ DOMAIN lastMineAt' = DOMAIN lastMineAt \cup {b}
      /\ lastMineAt'[b] = uptime
      /\ \A a \in DOMAIN lastMineAt \ {b} : lastMineAt'[a] = lastMineAt[a]
  BY <1>2
<1>6. ASSUME NEW a \in Addresses, NEW u \in Threads
      PROVE  /\ Recording(u, a) /\ a # b => Recording(u, a)'
             /\ Checked(u, a)' => Checked(u, a)
  <2>1. CASE u # t
    BY <1>3, <2>1 DEF Recording, Checked, Mining
  <2>2. CASE u = t
    BY <1>1, <1>3, <2>2 DEF Recording, Checked, Mining
  <2> QED
    BY <2>1, <2>2
<1> HIDE DEF b
<1>7. ClockInv' /\ CooldownBound'
  BY <1>0, <1>2, <1>5 DEF ClockInv, CooldownBound, CooldownInv
<1>8. RecordInv'
  <2> SUFFICES ASSUME NEW a \in Addresses, NEW i \in DOMAIN minedAt[a]
               PROVE  \/ a \in DOMAIN lastMineAt' /\ lastMineAt'[a] >= minedAt[a][i].at
                      \/ Recording(minedAt[a][i].thread, a)'
    BY <1>2 DEF RecordInv
  <2>1. CASE a = b
    BY <1>4, <1>5, <2>1
  <2>2. CASE a # b /\ a \in DOMAIN lastMineAt /\ lastMineAt[a] >= minedAt[a][i].at
    BY <1>5, <2>2
  <2>3. CASE a # b /\ Recording(minedAt[a][i].thread, a)
    <3> DEFINE u == minedAt[a][i].thread
    <3>1. u \in Threads /\ minedAt'[a][i].thread = u
      BY <1>2, <1>4
    <3> HIDE DEF u
    <3>2. Recording(u, a)
      BY <2>3 DEF u
    <3>3. request'[u] # Idle /\ request'[u].route = "mine"
            /\ request'[u].address = a /\ request'[u].at = 4
      BY <1>6, <2>3, <3>1, <3>2 DEF Recording, Mining
    <3> QED
      BY <3>1, <3>3 DEF Recording, Mining
  <2> QED
    BY <2>1, <2>2, <2>3 DEF RecordInv, CooldownInv
<1>9. CheckedInv'
  BY <1>2, <1>6 DEF CheckedInv, CooldownInv
<1> QED
  BY <1>7, <1>8, <1>9 DEF CooldownInv

LEMMA CooldownInvNext == CooldownInv /\ [HttpNext]_httpVars => CooldownInv'
<1> SUFFICES ASSUME CooldownInv, [HttpNext]_httpVars PROVE CooldownInv'
  OBVIOUS
<1>0. RequestInv /\ RequestInv' /\ uptime \in Nat
  BY RequestInvNext DEF CooldownInv, ClockInv
<1>1. ASSUME NEW t \in Threads, receive(t) PROVE CooldownInv'
  <2>1. /\ request[t] = Idle /\ \A u \in Threads \ {t} : request'[u] = request[u]
        /\ request'[t].at = 1
    BY <1>0, <1>1 DEF receive, RequestInv
  <2>2. UNCHANGED <<uptime, lastMineAt, minedAt>>
    BY <1>1 DEF receive, serverVars
  <2>3. \A a \in Addresses, u \in Threads :
          /\ Recording(u, a) => Recording(u, a)'
          /\ Checked(u, a)' => Checked(u, a)
    BY <2>1 DEF Recording, Checked, Mining
  <2> QED
    BY <1>0, <2>2, <2>3, Unrelated
<1>2. ASSUME NEW t \in Threads, read(t) PROVE CooldownInv'
  <2>1. PICK s : OneMoves(t, [request[t] EXCEPT !.at = @ + 1, !.saw = s])
    BY <1>0, <1>2, ReadMoves
  <2>2. /\ Served(request[t])
        /\ Steps[request[t].route][request[t].at] \notin {"cooldown", "mine", "record"}
    BY <1>0, <1>2, ReadMoves
  <2>3. UNCHANGED <<uptime, lastMineAt, minedAt>>
    BY <1>2 DEF read, serverVars
  <2> DEFINE r == [request[t] EXCEPT !.at = @ + 1, !.saw = s]
  <2>4. /\ r.route = request[t].route /\ r.address = request[t].address
        /\ r.at = request[t].at + 1
    BY <2>2 DEF Served, Shape
  <2>5. r.route = "mine" => request[t].at \in {2, 5, 6}
    BY <2>2, <2>4, StepRoutes
  <2> HIDE DEF r
  <2>6. OneMoves(t, r)
    BY <2>1 DEF r
  <2> QED
    BY <1>0, <2>2, <2>3, <2>4, <2>5, <2>6, UnrelatedStep
<1>3. ASSUME NEW t \in Threads,
             know(t) \/ checkReceiverHistory(t) \/ checkFunds(t) \/ add(t)
      PROVE  CooldownInv'
  <2>1. PICK step \in {"know", "receiverHistory", "funds", "add"} : AtStep(t, step)
    BY <1>3 DEF know, checkReceiverHistory, checkFunds, add
  <2>2. /\ Served(request[t])
        /\ Steps[request[t].route][request[t].at] \notin {"cooldown", "mine", "record"}
    BY <1>0, <2>1, AtStepServed
  <2>3. goOn(t) \/ refuse(t)
    BY <1>3 DEF know, checkReceiverHistory, checkFunds, add
  <2>4. OneMoves(t, Next1(t))
    BY <1>0, <2>2, <2>3, GoOn, Refuse
  <2>5. /\ Next1(t).at = request[t].at + 1
        /\ Next1(t).route = request[t].route /\ Next1(t).address = request[t].address
    BY <2>2 DEF Next1, Served, Shape
  <2>6. Next1(t).route = "mine" => request[t].at \in {2, 5, 6}
    BY <2>2, <2>5, StepRoutes
  <2>7. UNCHANGED <<uptime, lastMineAt, minedAt>>
    BY <1>3 DEF know, checkReceiverHistory, checkFunds, add, serverVars
  <2> QED
    BY <1>0, <2>2, <2>4, <2>5, <2>6, <2>7, UnrelatedStep
<1>4. ASSUME NEW t \in Threads, checkReceiver(t) PROVE CooldownInv'
  <2>1. Served(request[t]) /\ request[t].route = "send"
    BY <1>0, <1>4, AtStepServed, StepRoutes DEF checkReceiver
  <2>2. PICK k \in {request[t].at + 1, request[t].at + 2} :
          goOnWith(t, [request[t] EXCEPT !.at = k])
    BY <1>4, <2>1 DEF checkReceiver, Served, Shape
  <2> DEFINE r == [request[t] EXCEPT !.at = k]
  <2>3. Shape(r) /\ r.route = "send" /\ r.address = request[t].address
    BY <2>1 DEF Served, Shape
  <2> HIDE DEF r
  <2>4. OneMoves(t, r)
    BY <1>0, <2>2, <2>3, GoOnWith DEF r
  <2>5. UNCHANGED <<uptime, lastMineAt, minedAt>>
    BY <1>4 DEF checkReceiver, serverVars
  <2> QED
    BY <1>0, <2>1, <2>3, <2>4, <2>5, UnrelatedStep
<1>5. ASSUME NEW t \in Threads, checkCooldown(t) \/ mine(t) \/ recordMine(t)
      PROVE  CooldownInv'
  BY <1>0, <1>5, CooldownCheck, CooldownMine, CooldownRecord
<1>6. CASE Elsewhere
  <2>1. UNCHANGED <<uptime, lastMineAt, minedAt>>
    BY <1>6 DEF Elsewhere, serverVars
  <2>2. ASSUME NEW a \in Addresses, NEW u \in Threads
        PROVE  /\ Recording(u, a) => Recording(u, a)'
               /\ Checked(u, a)' => Checked(u, a)
    <3>1. request'[u] = request[u]
            \/ (request[u] # Idle /\ request'[u] = [request[u] EXCEPT !.reorganised = TRUE])
      BY <1>6 DEF Elsewhere, Reorganised, Serving
    <3>2. request'[u] = Idle <=> request[u] = Idle
      BY <1>0, <3>1, ShapeNotIdle DEF RequestInv, Served, Shape
    <3>3. request[u] # Idle =>
            /\ request'[u].route = request[u].route
            /\ request'[u].address = request[u].address /\ request'[u].at = request[u].at
      BY <1>0, <3>1 DEF RequestInv, Served, Shape
    <3> QED
      BY <3>2, <3>3 DEF Recording, Checked, Mining
  <2> QED
    BY <1>0, <2>1, <2>2, Unrelated
<1>7. CASE RestartServer
  <2>1. /\ uptime' = uptime /\ lastMineAt' = <<>> /\ minedAt' = [a \in Addresses |-> <<>>]
    BY <1>7 DEF RestartServer
  <2>2. <<>> \in Seq(Entries) /\ DOMAIN <<>> = {}
    OBVIOUS
  <2> QED
    BY <1>0, <2>1, <2>2 DEF CooldownInv, ClockInv, RecordInv, CheckedInv, CooldownBound
<1>8. CASE UptimeTick \/ UNCHANGED httpVars
  <2>1. /\ request' = request /\ UNCHANGED <<lastMineAt, minedAt>>
        /\ uptime' \in Nat /\ uptime' >= uptime
    BY <1>0, <1>8 DEF UptimeTick, httpVars, serverVars
  <2>2. \A a \in Addresses, u \in Threads :
          /\ Recording(u, a) => Recording(u, a)'
          /\ Checked(u, a)' => Checked(u, a)
    BY <2>1 DEF Recording, Checked, Mining
  <2> QED
    BY <1>0, <2>1, <2>2, Unrelated
<1> QED
  BY <1>1, <1>2, <1>3, <1>4, <1>5, <1>6, <1>7, <1>8 DEF HttpNext

LEMMA CooldownInvInit == HttpInit => CooldownInv
<1> SUFFICES ASSUME HttpInit PROVE CooldownInv
  OBVIOUS
<1>1. /\ uptime = 0 /\ lastMineAt = <<>> /\ minedAt = [a \in Addresses |-> <<>>]
  BY DEF HttpInit
<1>2. <<>> \in Seq(Entries) /\ DOMAIN <<>> = {}
  OBVIOUS
<1> QED
  BY <1>1, <1>2, RequestInvInit DEF CooldownInv, ClockInv, RecordInv, CheckedInv, CooldownBound

-----------------------------------------------------------------------------
(* What a handler has seen, while the node goes on *)

\* The length that was read is still reached: no step of a running node makes its
\* chain shorter, and a restart ends all requests.
LengthSeen(r) ==
  r.route = "chain" /\ r.at = 2 =>
    /\ "length" \in DOMAIN r.saw
    /\ r.saw.length \in Nat /\ r.saw.length <= Len(chain[Server])

\* The rows that were read are on the chain, unless it lost a block.
RowsSeen(r) ==
  r.route = "walletTransactions" /\ r.at \in {2, 3} /\ ~r.reorganised =>
    /\ "history" \in DOMAIN r.saw
    /\ ToSet(r.saw.history) \subseteq ChainTxs(chain[Server])

\* The confirmed nonce that was read has not gone back, unless the chain lost a
\* block.
NonceSeen(r) ==
  r.route = "balance" /\ r.at = 4 /\ ~r.reorganised =>
    /\ "nonce" \in DOMAIN r.saw
    /\ r.saw.nonce \in Nat /\ r.saw.nonce <= lastNonceMap[Server][r.address]

\* A transfer that was admitted is pending or confirmed; once the mempool has been
\* read, it is in what was read or confirmed, and so it is either in the list
\* or counted in the nonce, unless the chain lost a block.
TransferSeen(r) ==
  r.route = "send" /\ ~r.reorganised =>
    /\ r.at = 5 => r.item \in ToSet(mempool[Server]) \cup spentTxIDs[Server]
    /\ r.at \in {6, 7} => "mempool" \in DOMAIN r.saw /\ r.saw.mempool \in Seq(Txs)
    /\ r.at = 6 => r.item \in ToSet(r.saw.mempool) \cup spentTxIDs[Server]
    /\ r.at = 7 => /\ "nonce" \in DOMAIN r.saw /\ r.saw.nonce \in Nat
                   /\ r.item \in ToSet(r.saw.mempool) \/ r.item.nonce <= r.saw.nonce

Seen(r) == LengthSeen(r) /\ RowsSeen(r) /\ NonceSeen(r) /\ TransferSeen(r)

\* What a request keeps, and what it has seen.
Kept(r) ==
  /\ r.reorganised \in BOOLEAN
  /\ (r.route = "send" => r.item.from = r.address)
  /\ Seen(r)

\* What ChainReply, RowsPlaced, NoNonceGap and SendNonce say of the last answer.
Replies(r) ==
  /\ r.route = "chain" => r.saw.length <= Len(r.saw.chain)
  /\ r.route = "walletTransactions" /\ ~r.reorganised
       => ToSet(r.saw.history) \subseteq ChainTxs(r.saw.chain)
  /\ r.route = "balance" /\ ~r.reorganised
       => nextNonce(r) <= highestSeenNonce(Server, r.address) + 1
  /\ r.route = "send" /\ ~r.reorganised => nextNonce(r) > r.item.nonce

AnswerInv ==
  /\ RequestInv /\ StateInv
  /\ \A t \in Threads : request[t] # Idle => Kept(request[t])
  /\ Replies(answer)

LEMMA IdleReplies == Replies(Idle) /\ Replies(Idle)'
BY DEF Replies, Idle

\* The account state of the server, read off its chain.
ServerFacts ==
  /\ Linked(chain[Server]) /\ mempool[Server] \in Seq(Txs)
  /\ Len(chain[Server]) \in Nat
  /\ spentTxIDs[Server] = RebuildSpent(chain[Server])
  /\ lastNonceMap[Server] = RebuildNonces(chain[Server])
  /\ lastNonceMap[Server] \in [Addresses -> Nat]
  /\ \A tx \in spentTxIDs[Server] :
       tx.from \in Addresses /\ tx.nonce \in 0..lastNonceMap[Server][tx.from]
  /\ \A a \in Addresses : ToSet(history[Server][a]) \subseteq ChainTxs(chain[Server])

LEMMA ServerState == StateInv => ServerFacts
<1> SUFFICES ASSUME StateInv PROVE ServerFacts
  OBVIOUS
<1>1. Server \in Nodes /\ ChainInv /\ StateMatchesChain
  BY ServerAssumption DEF StateInv
<1>2. Linked(chain[Server]) /\ mempool[Server] \in Seq(Txs) /\ Len(chain[Server]) \in Nat
  BY <1>1, HeldChain, LinkedType
<1>3. /\ spentTxIDs[Server] = RebuildSpent(chain[Server])
      /\ lastNonceMap[Server] = RebuildNonces(chain[Server])
      /\ history[Server] = RebuildHistory(chain[Server])
  BY <1>1 DEF StateMatchesChain
<1>4. NoncesHold(NoNonces, chain[Server], lastNonceMap[Server])
  BY <1>2, <1>3, NoncesOf
<1>5. HistoryHolds(NoHistory, chain[Server], history[Server])
  BY <1>2, <1>3, HistoryOf
<1>6. ChainTxs(chain[Server]) = TxsOf(chain[Server])
  BY DEF ChainTxs, TxsOf
<1> QED
  BY <1>2, <1>3, <1>4, <1>5, <1>6 DEF NoncesHold, HistoryHolds, ServerFacts

LEMMA ServerStateNext == StateInv' => ServerFacts'
BY ServerState, PTL

\* What a request has seen stays true while the node goes on.
LEMMA SeenStays ==
  ASSUME StateInv, StateInv', Grows(Server), NEW r, Served(r), Kept(r), NEW q,
         \/ q = r /\ IsPrefix(chain[Server], chain'[Server])
         \/ q = [r EXCEPT !.reorganised = TRUE]
  PROVE  Kept(q)'
<1>1. PICK l \in Nat : l = Len(chain[Server])
  BY ServerState DEF ServerFacts
<1>2. PICK m \in Nat : m = Len(chain'[Server])
  BY ServerState, ServerStateNext DEF ServerFacts
<1>3. l <= m
  BY <1>1, <1>2 DEF Grows
<1>4. ASSUME LengthSeen(r), NEW x, x.route = r.route, x.at = r.at, x.saw = r.saw
      PROVE  LengthSeen(x)'
  BY <1>1, <1>2, <1>3, <1>4 DEF LengthSeen
<1>5. CASE q = r /\ IsPrefix(chain[Server], chain'[Server])
  <2>1. /\ spentTxIDs[Server] \subseteq spentTxIDs'[Server]
        /\ ChainTxs(chain[Server]) \subseteq ChainTxs(chain'[Server])
        /\ \A a \in Addresses : lastNonceMap[Server][a] <= lastNonceMap'[Server][a]
    <3>1. /\ Linked(chain[Server])
          /\ spentTxIDs[Server] = RebuildSpent(chain[Server])
          /\ lastNonceMap[Server] = RebuildNonces(chain[Server])
      BY ServerState DEF ServerFacts
    <3>2. /\ Linked(chain'[Server])
          /\ spentTxIDs'[Server] = RebuildSpent(chain'[Server])
          /\ lastNonceMap'[Server] = RebuildNonces(chain'[Server])
      BY ServerState, ServerStateNext DEF ServerFacts
    <3> QED
      BY <1>5, <3>1, <3>2, PrefixHasLess DEF ChainTxs, TxsOf
  <2>2. lastNonceMap[Server] \in [Addresses -> Nat] /\ lastNonceMap'[Server] \in [Addresses -> Nat]
    BY ServerState, ServerStateNext DEF ServerFacts
  <2>3. r.address \in Addresses
    BY DEF Served, Shape, Addresses
  <2>4. NonceSeen(r)'
    <3>1. PICK k \in Nat : k = lastNonceMap[Server][r.address]
      BY <2>2, <2>3
    <3>2. PICK n \in Nat : n = lastNonceMap'[Server][r.address]
      BY <2>2, <2>3
    <3>3. k <= n
      BY <2>1, <2>3, <3>1, <3>2
    <3> QED
      BY <3>1, <3>2, <3>3 DEF NonceSeen, Kept, Seen
  <2>5. RowsSeen(r)'
    BY <2>1 DEF RowsSeen, Kept, Seen
  <2>6. TransferSeen(r)'
    <3>1. ToSet(mempool[Server]) \subseteq ToSet(mempool'[Server]) \cup spentTxIDs'[Server]
      BY DEF Grows
    <3> QED
      BY <2>1, <3>1 DEF TransferSeen, Kept, Seen
  <2>7. LengthSeen(r)'
    BY <1>4 DEF Kept, Seen
  <2> QED
    BY <1>5, <2>4, <2>5, <2>6, <2>7 DEF Kept, Seen
<1>6. CASE q = [r EXCEPT !.reorganised = TRUE]
  <2>1. /\ q.route = r.route /\ q.at = r.at /\ q.saw = r.saw /\ q.item = r.item
        /\ q.address = r.address /\ q.reorganised = TRUE
    BY <1>6 DEF Served, Shape
  <2>2. LengthSeen(q)'
    BY <1>4, <2>1 DEF Kept, Seen
  <2> QED
    BY <2>1, <2>2 DEF Kept, Seen, RowsSeen, NonceSeen, TransferSeen
<1> QED
  BY <1>5, <1>6

\* One thread takes a step of its handler while the chain keeps its blocks.
LEMMA OneKept ==
  ASSUME AnswerInv, RequestInv', StateInv', Grows(Server),
         IsPrefix(chain[Server], chain'[Server]),
         NEW t \in Threads, NEW r, OneMoves(t, r),
         request'[t] # Idle => Kept(request[t])', Replies(answer)'
  PROVE  AnswerInv'
<1>1. ASSUME NEW u \in Threads, request'[u] # Idle, u # t PROVE Kept(request[u])'
  <2>1. request'[u] = request[u]
    BY <1>1 DEF OneMoves
  <2>2. PICK q : q = request[u]
    OBVIOUS
  <2>3. Served(q) /\ Kept(q) /\ StateInv
    BY <1>1, <2>1, <2>2 DEF AnswerInv, RequestInv
  <2>4. Kept(q)'
    BY <2>3, SeenStays
  <2> QED
    BY <2>1, <2>2, <2>4
<1>2. \A u \in Threads : request'[u] # Idle => Kept(request[u])'
  BY <1>1
<1> QED
  BY <1>2 DEF AnswerInv

\* The same where the thread goes on with r, or is done and answers r.
LEMMA GoOnKept ==
  ASSUME AnswerInv, StateInv', Grows(Server), IsPrefix(chain[Server], chain'[Server]),
         NEW t \in Threads, NEW r, Shape(r), goOnWith(t, r),
         r.at <= Len(Steps[r.route]) => Kept(r)',
         r.at > Len(Steps[r.route]) => Replies(r)'
  PROVE  AnswerInv'
<1>1. RequestInv
  BY DEF AnswerInv
<1>2. OneMoves(t, r) /\ RequestInv'
  BY <1>1, GoOnWith
<1>3. PICK n \in Nat : n = Len(Steps[r.route])
  BY StepsLength DEF Shape
<1>4. r.at \in Nat
  BY DEF Shape
<1>5. CASE r.at > n
  <2>1. request'[t] = Idle /\ answer' = r
    BY <1>1, <1>3, <1>5 DEF goOnWith, RequestInv
  <2>2. Replies(answer)'
    BY <1>3, <1>5, <2>1
  <2> QED
    BY <1>2, <2>1, <2>2, OneKept
<1>6. CASE r.at <= n
  <2>1. request'[t] = r /\ answer' = Idle
    <3>1. ~(r.at > n)
      BY <1>3, <1>4, <1>6
    <3> QED
      BY <1>1, <1>3, <3>1 DEF goOnWith, RequestInv
  <2>2. Replies(answer)'
    BY <2>1, IdleReplies
  <2>3. Kept(request[t])'
    BY <1>3, <1>6, <2>1
  <2> QED
    BY <1>2, <2>2, <2>3, OneKept
<1> QED
  BY <1>3, <1>4, <1>5, <1>6

LEMMA RefuseKept ==
  ASSUME AnswerInv, StateInv', Grows(Server), IsPrefix(chain[Server], chain'[Server]),
         NEW t \in Threads, refuse(t)
  PROVE  AnswerInv'
<1>1. OneMoves(t, Idle) /\ RequestInv'
  BY Refuse DEF AnswerInv
<1>2. request'[t] = Idle /\ answer' = Idle
  BY DEF refuse, AnswerInv, RequestInv
<1>3. Replies(answer)'
  BY <1>2, IdleReplies
<1> QED
  BY <1>1, <1>2, <1>3, OneKept

\* A step that leaves the node alone.
LEMMA NodeUntouched ==
  ASSUME StateInv, UNCHANGED vars
  PROVE  /\ StateInv' /\ Grows(Server) /\ IsPrefix(chain[Server], chain'[Server])
<1>1. StateInv'
  BY StateInvNext
<1>2. Grows(Server)
  BY <1>1, ServerAssumption, RunningGrows DEF Running, StateInv
<1>3. IsPrefix(chain[Server], chain[Server])
  BY ServerState, AppendIsLonger DEF ServerFacts
<1> QED
  BY <1>1, <1>2, <1>3 DEF vars

\* How many steps the handlers have whose answers say something.
LEMMA StepCount ==
  ASSUME NEW route
  PROVE  /\ route = "chain" => Len(Steps[route]) = 2
         /\ route = "walletTransactions" => Len(Steps[route]) = 3
         /\ route = "balance" => Len(Steps[route]) = 4
         /\ route = "send" => Len(Steps[route]) = 7
<1>1. CASE route \in {"chain", "walletTransactions"}
  BY <1>1 DEF Steps, handleGetChain, handleGetWalletTransactions
<1>2. CASE route = "balance"
  BY <1>2 DEF Steps, handleGetWalletBalance
<1>3. CASE route = "send"
  BY <1>3 DEF Steps, handleSendTransaction
<1> QED
  BY <1>1, <1>2, <1>3

\* The steps of which the answers say nothing.
LEMMA QuietStep ==
  ASSUME AnswerInv, StateInv', Grows(Server), IsPrefix(chain[Server], chain'[Server]),
         NEW t \in Threads, Served(request[t]), NEW k \in Nat \ {0},
         goOnWith(t, [request[t] EXCEPT !.at = k]),
         request[t].route \notin {"chain", "walletTransactions"},
         request[t].route = "balance" => k = 2,
         request[t].route = "send" => k <= 4
  PROVE  AnswerInv'
<1>0. PICK r : r = [request[t] EXCEPT !.at = k]
  OBVIOUS
<1>1. PICK q : q = request[t] /\ Served(q) /\ Kept(q)
  BY ShapeNotIdle DEF AnswerInv, Served
<1>2. /\ r.route = q.route /\ r.address = q.address /\ r.item = q.item /\ r.at = k
      /\ r.reorganised = q.reorganised
  BY <1>0, <1>1 DEF Served, Shape
<1>3. Shape(r)
  BY <1>0, <1>1 DEF Served, Shape
<1>4. goOnWith(t, r)
  BY <1>0
<1>5. Kept(r)'
  BY <1>1, <1>2 DEF Kept, Seen, LengthSeen, RowsSeen, NonceSeen, TransferSeen
<1>6. r.at > Len(Steps[r.route]) => Replies(r)'
  <2>1. r.route \notin {"balance", "send"} => Replies(r)'
    BY <1>1, <1>2 DEF Replies
  <2>2. PICK n : n = Len(Steps[r.route])
    OBVIOUS
  <2>3. (r.route = "balance" => n = 4) /\ (r.route = "send" => n = 7)
    BY <2>2, StepCount
  <2>4. (r.route = "balance" => k = 2) /\ (r.route = "send" => k <= 4)
    BY <1>1, <1>2
  <2>5. r.route \in {"balance", "send"} => ~(k > n)
    BY <2>3, <2>4
  <2> QED
    BY <1>2, <2>1, <2>2, <2>5
<1> QED
  BY <1>3, <1>4, <1>5, <1>6, GoOnKept

\* The request after it has read v.
Noted(q, kind, v) == [q EXCEPT !.at = @ + 1, !.saw = With(@, kind, v)]

LEMMA NotedFacts ==
  ASSUME NEW q, Served(q), NEW kind, NEW v, NEW r, r = Noted(q, kind, v)
  PROVE  /\ Shape(r) /\ r.at = q.at + 1
         /\ r.route = q.route /\ r.address = q.address /\ r.item = q.item
         /\ r.reorganised = q.reorganised
         /\ kind \in DOMAIN r.saw /\ r.saw[kind] = v
         /\ \A k \in DOMAIN q.saw : k # kind => k \in DOMAIN r.saw /\ r.saw[k] = q.saw[k]
<1>1. PICK s : s = With(q.saw, kind, v)
  OBVIOUS
<1>2. /\ r.route = q.route /\ r.address = q.address /\ r.item = q.item
      /\ r.reorganised = q.reorganised /\ r.at = q.at + 1 /\ r.saw = s
      /\ DOMAIN r = DOMAIN q
  BY <1>1 DEF Noted, Served, Shape
<1>3. Shape(r)
  BY <1>2 DEF Served, Shape
<1>4. /\ kind \in DOMAIN s /\ s[kind] = v
      /\ \A k \in DOMAIN q.saw : k # kind => k \in DOMAIN s /\ s[k] = q.saw[k]
  BY <1>1 DEF With
<1> QED
  BY <1>2, <1>3, <1>4

\* Where the handlers read what.
LEMMA ReadRoutes ==
  ASSUME NEW q, Served(q), NEW kind, Steps[q.route][q.at] = kind,
         kind \in {"length", "chain", "mempool", "balance", "nonce", "history"}
  PROVE  /\ q.route \in {"chain", "walletTransactions", "balance", "mine", "send"}
         /\ q.route = "chain" =>
              (q.at = 1 /\ kind = "length") \/ (q.at = 2 /\ kind = "chain")
         /\ q.route = "walletTransactions" =>
              \/ q.at = 1 /\ kind = "history"
              \/ q.at = 2 /\ kind = "mempool"
              \/ q.at = 3 /\ kind = "chain"
         /\ q.route = "balance" =>
              \/ q.at = 2 /\ kind = "balance"
              \/ q.at = 3 /\ kind = "nonce"
              \/ q.at = 4 /\ kind = "mempool"
         /\ q.route = "send" =>
              \/ q.at = 5 /\ kind = "mempool"
              \/ q.at = 6 /\ kind = "nonce"
              \/ q.at = 7 /\ kind = "balance"
<1>1. CASE q.route = "chain"
  <2>1. Steps[q.route] = handleGetChain /\ Len(handleGetChain) = 2
    BY <1>1 DEF Steps, handleGetChain
  <2>2. q.at \in {1, 2}
    BY <2>1 DEF Served, Shape
  <2>3. /\ handleGetChain[1] = "length" /\ handleGetChain[2] = "chain"
    BY DEF handleGetChain
  <2> QED
    BY <1>1, <2>1, <2>2, <2>3
<1>2. CASE q.route = "walletTransactions"
  <2>1. Steps[q.route] = handleGetWalletTransactions /\ Len(handleGetWalletTransactions) = 3
    BY <1>2 DEF Steps, handleGetWalletTransactions
  <2>2. q.at \in {1, 2, 3}
    BY <2>1 DEF Served, Shape
  <2>3. /\ handleGetWalletTransactions[1] = "history" /\ handleGetWalletTransactions[2] = "mempool" /\ handleGetWalletTransactions[3] = "chain"
    BY DEF handleGetWalletTransactions
  <2> QED
    BY <1>2, <2>1, <2>2, <2>3
<1>3. CASE q.route = "balance"
  <2>1. Steps[q.route] = handleGetWalletBalance /\ Len(handleGetWalletBalance) = 4
    BY <1>3 DEF Steps, handleGetWalletBalance
  <2>2. q.at \in {1, 2, 3, 4}
    BY <2>1 DEF Served, Shape
  <2>3. /\ handleGetWalletBalance[1] = "know" /\ handleGetWalletBalance[2] = "balance" /\ handleGetWalletBalance[3] = "nonce"
        /\ handleGetWalletBalance[4] = "mempool"
    BY DEF handleGetWalletBalance
  <2> QED
    BY <1>3, <2>1, <2>2, <2>3
<1>4. CASE q.route = "send"
  <2>1. Steps[q.route] = handleSendTransaction /\ Len(handleSendTransaction) = 7
    BY <1>4 DEF Steps, handleSendTransaction
  <2>2. q.at \in {1, 2, 3, 4, 5, 6, 7}
    BY <2>1 DEF Served, Shape
  <2>3. /\ handleSendTransaction[1] = "receiver" /\ handleSendTransaction[2] = "receiverHistory" /\ handleSendTransaction[3] = "funds"
        /\ handleSendTransaction[4] = "add" /\ handleSendTransaction[5] = "mempool" /\ handleSendTransaction[6] = "nonce"
        /\ handleSendTransaction[7] = "balance"
    BY DEF handleSendTransaction
  <2> QED
    BY <1>4, <2>1, <2>2, <2>3
<1>5. CASE q.route = "import"
  <2>1. Steps[q.route] = handleImportWallet /\ Len(handleImportWallet) = 1
    BY <1>5 DEF Steps, handleImportWallet
  <2>2. q.at \in {1}
    BY <2>1 DEF Served, Shape
  <2>3. /\ handleImportWallet[1] = "know"
    BY DEF handleImportWallet
  <2> QED
    BY <1>5, <2>1, <2>2, <2>3
<1>6. CASE q.route = "mine"
  BY <1>6
<1> QED
  BY <1>1, <1>2, <1>3, <1>4, <1>5, <1>6 DEF Served, Shape, Steps

LEMMA ValuesAre ==
  ASSUME NEW a
  PROVE  /\ Values(a)["length"] = Len(chain[Server]) /\ Values(a)["chain"] = chain[Server]
         /\ Values(a)["mempool"] = mempool[Server]
         /\ Values(a)["nonce"] = lastNonceMap[Server][a]
         /\ Values(a)["history"] = history[Server][a]
BY DEF Values

\* A nonce that was read, which the node has not gone below, and the mempool of now
\* give no more than the node expects next.
LEMMA NoGap ==
  ASSUME NEW r, mempool[Server] \in Seq(Txs),
         r.saw["mempool"] = mempool[Server], r.saw["nonce"] \in Nat,
         lastNonceMap[Server][r.address] \in Nat,
         r.saw["nonce"] <= lastNonceMap[Server][r.address]
  PROVE  nextNonce(r) <= highestSeenNonce(Server, r.address) + 1
<1>1. PICK s \in Seq(TxType) : s = mempool[Server]
  BY DEF TxType
<1>2. PICK A : A = {x \in ToSet(s) : x.from = r.address} /\ A \subseteq ToSet(s)
  OBVIOUS
<1>3. PICK k \in Nat : k = r.saw["nonce"]
  OBVIOUS
<1>4. PICK l \in Nat : l = lastNonceMap[Server][r.address] /\ k <= l
  BY <1>3
<1>5. PICK M : M = {k} \cup {tx.nonce : tx \in A}
  OBVIOUS
<1>6. PICK L : L = {l} \cup {tx.nonce : tx \in A}
  OBVIOUS
<1>7. Max(M) \in M /\ Max(M) \in Nat
  BY <1>2, <1>5, NonceMax
<1>8. Max(L) \in Nat /\ \A y \in L : y <= Max(L)
  BY <1>2, <1>6, NonceMax
<1>9. nextNonce(r) = Max(M) + 1
  BY <1>1, <1>2, <1>3, <1>5 DEF nextNonce
<1>10. highestSeenNonce(Server, r.address) = Max(L)
  BY <1>1, <1>2, <1>4, <1>6 DEF highestSeenNonce
<1>11. l <= Max(L) /\ (Max(M) = k \/ Max(M) <= Max(L))
  BY <1>5, <1>6, <1>7, <1>8
<1> QED
  BY <1>4, <1>7, <1>8, <1>9, <1>10, <1>11

\* A transfer that is in the mempool that was read, or counted in the nonce that was
\* read, is not what the client is told to use next.
LEMMA Fresh ==
  ASSUME NEW r, r.saw["nonce"] \in Nat, r.saw["mempool"] \in Seq(Txs),
         r.item.from = r.address, r.item.nonce \in Nat,
         r.item \in ToSet(r.saw["mempool"]) \/ r.item.nonce <= r.saw["nonce"]
  PROVE  nextNonce(r) > r.item.nonce
<1>1. PICK s \in Seq(TxType) : s = r.saw["mempool"]
  BY DEF TxType
<1>2. PICK A : A = {x \in ToSet(s) : x.from = r.address} /\ A \subseteq ToSet(s)
  OBVIOUS
<1>3. PICK k \in Nat : k = r.saw["nonce"]
  OBVIOUS
<1>4. PICK M : M = {k} \cup {tx.nonce : tx \in A}
  OBVIOUS
<1>5. Max(M) \in Nat /\ \A y \in M : y <= Max(M)
  BY <1>2, <1>4, NonceMax
<1>6. nextNonce(r) = Max(M) + 1
  BY <1>1, <1>2, <1>3, <1>4 DEF nextNonce
<1>7. PICK i \in Nat : i = r.item.nonce
  OBVIOUS
<1>8. i \in M \/ i <= k
  BY <1>1, <1>2, <1>3, <1>4, <1>7
<1>9. k \in M
  BY <1>4
<1>10. i <= Max(M)
  BY <1>5, <1>8, <1>9
<1> QED
  BY <1>5, <1>6, <1>7, <1>10

\* What a request has seen, or answers, once it has read one thing more.
LEMMA ReadKept ==
  ASSUME StateInv, NEW q, Served(q), Kept(q), NEW kind, Steps[q.route][q.at] = kind,
         kind \in {"length", "chain", "mempool", "balance", "nonce", "history"},
         NEW r, r = Noted(q, kind, Values(q.address)[kind])
  PROVE  /\ r.at <= Len(Steps[r.route]) => Kept(r)
         /\ r.at > Len(Steps[r.route]) => Replies(r)
<1>1. /\ Shape(r) /\ r.at = q.at + 1
      /\ r.route = q.route /\ r.address = q.address /\ r.item = q.item
      /\ r.reorganised = q.reorganised
      /\ kind \in DOMAIN r.saw /\ r.saw[kind] = Values(q.address)[kind]
      /\ \A k \in DOMAIN q.saw : k # kind => k \in DOMAIN r.saw /\ r.saw[k] = q.saw[k]
  BY NotedFacts
<1>2. ServerFacts
  BY ServerState
<1>3. /\ r.reorganised \in BOOLEAN /\ (r.route = "send" => r.item.from = r.address)
      /\ r.address \in Addresses
  BY <1>1 DEF Kept, Shape, Addresses
<1>4. LengthSeen(q) /\ RowsSeen(q) /\ NonceSeen(q) /\ TransferSeen(q)
  BY DEF Kept, Seen
<1>5. PICK n : n = Len(Steps[r.route])
  OBVIOUS
<1>6. CASE q.route = "chain"
  <2>1. n = 2
    BY <1>1, <1>5, <1>6, StepCount
  <2>2. CASE q.at = 1 /\ kind = "length"
    <3>1. r.saw["length"] = Len(chain[Server]) /\ r.at = 2
      BY <1>1, <2>2, ValuesAre
    <3>2. Kept(r)
      BY <1>1, <1>2, <1>3, <1>6, <2>2, <3>1
         DEF Kept, Seen, LengthSeen, RowsSeen, NonceSeen, TransferSeen, ServerFacts
    <3> QED
      BY <1>5, <2>1, <3>1, <3>2
  <2>3. CASE q.at = 2 /\ kind = "chain"
    <3>1. r.saw["chain"] = chain[Server] /\ r.at = 3
      BY <1>1, <2>3, ValuesAre
    <3>2. r.saw["length"] <= Len(r.saw["chain"])
      BY <1>1, <1>4, <1>6, <2>3, <3>1 DEF LengthSeen
    <3>3. Replies(r)
      BY <1>1, <1>6, <3>2 DEF Replies
    <3> QED
      BY <1>5, <2>1, <3>1, <3>3
  <2> QED
    BY <1>6, <2>2, <2>3, ReadRoutes
<1>7. CASE q.route = "walletTransactions"
  <2>1. n = 3
    BY <1>1, <1>5, <1>7, StepCount
  <2>2. CASE q.at = 1 /\ kind = "history"
    <3>1. r.saw["history"] = history[Server][r.address] /\ r.at = 2
      BY <1>1, <2>2, ValuesAre
    <3>2. Kept(r)
      BY <1>1, <1>2, <1>3, <1>7, <2>2, <3>1
         DEF Kept, Seen, LengthSeen, RowsSeen, NonceSeen, TransferSeen, ServerFacts
    <3> QED
      BY <1>5, <2>1, <3>1, <3>2
  <2>3. CASE q.at = 2 /\ kind = "mempool"
    <3>1. r.at = 3
      BY <1>1, <2>3
    <3>2. Kept(r)
      BY <1>1, <1>3, <1>4, <1>7, <2>3, <3>1
         DEF Kept, Seen, LengthSeen, RowsSeen, NonceSeen, TransferSeen
    <3> QED
      BY <1>5, <2>1, <3>1, <3>2
  <2>4. CASE q.at = 3 /\ kind = "chain"
    <3>1. r.saw["chain"] = chain[Server] /\ r.at = 4
      BY <1>1, <2>4, ValuesAre
    <3>2. ~r.reorganised => ToSet(r.saw["history"]) \subseteq ChainTxs(r.saw["chain"])
      BY <1>1, <1>4, <1>7, <2>4, <3>1 DEF RowsSeen
    <3>3. Replies(r)
      BY <1>1, <1>7, <3>2 DEF Replies
    <3> QED
      BY <1>5, <2>1, <3>1, <3>3
  <2> QED
    BY <1>7, <2>2, <2>3, <2>4, ReadRoutes
<1>8. CASE q.route = "balance"
  <2>1. n = 4
    BY <1>1, <1>5, <1>8, StepCount
  <2>2. CASE q.at = 2 /\ kind = "balance"
    <3>1. r.at = 3
      BY <1>1, <2>2
    <3>2. Kept(r)
      BY <1>1, <1>3, <1>8, <3>1
         DEF Kept, Seen, LengthSeen, RowsSeen, NonceSeen, TransferSeen
    <3> QED
      BY <1>5, <2>1, <3>1, <3>2
  <2>3. CASE q.at = 3 /\ kind = "nonce"
    <3>1. r.saw["nonce"] = lastNonceMap[Server][r.address] /\ r.at = 4
      BY <1>1, <2>3, ValuesAre
    <3>2. PICK k \in Nat : k = lastNonceMap[Server][r.address]
      BY <1>2, <1>3 DEF ServerFacts
    <3>3. Kept(r)
      BY <1>1, <1>3, <1>8, <2>3, <3>1, <3>2
         DEF Kept, Seen, LengthSeen, RowsSeen, NonceSeen, TransferSeen
    <3> QED
      BY <1>5, <2>1, <3>1, <3>3
  <2>4. CASE q.at = 4 /\ kind = "mempool"
    <3>1. r.saw["mempool"] = mempool[Server] /\ r.at = 5
      BY <1>1, <2>4, ValuesAre
    <3>2. ~r.reorganised => nextNonce(r) <= highestSeenNonce(Server, r.address) + 1
      BY <1>1, <1>2, <1>3, <1>4, <1>8, <2>4, <3>1, NoGap DEF NonceSeen, ServerFacts
    <3>3. Replies(r)
      BY <1>1, <1>8, <3>2 DEF Replies
    <3> QED
      BY <1>5, <2>1, <3>1, <3>3
  <2> QED
    BY <1>8, <2>2, <2>3, <2>4, ReadRoutes
<1>9. CASE q.route = "send"
  <2>1. n = 7
    BY <1>1, <1>5, <1>9, StepCount
  <2>2. CASE q.at = 5 /\ kind = "mempool"
    <3>1. r.saw["mempool"] = mempool[Server] /\ r.at = 6 /\ "mempool" \in DOMAIN r.saw
      BY <1>1, <2>2, ValuesAre
    <3>2. TransferSeen(r)
      BY <1>1, <1>2, <1>4, <1>9, <2>2, <3>1 DEF TransferSeen, ServerFacts
    <3>3. Kept(r)
      BY <1>1, <1>3, <1>9, <3>2 DEF Kept, Seen, LengthSeen, RowsSeen, NonceSeen
    <3> QED
      BY <1>5, <2>1, <3>1, <3>3
  <2>3. CASE q.at = 6 /\ kind = "nonce"
    <3>1. /\ r.saw["nonce"] = lastNonceMap[Server][r.address] /\ r.at = 7
          /\ "nonce" \in DOMAIN r.saw
      BY <1>1, <2>3, ValuesAre
    <3>2. PICK k \in Nat : k = lastNonceMap[Server][r.address]
      BY <1>2, <1>3 DEF ServerFacts
    <3>3. r.item \in spentTxIDs[Server] => r.item.nonce <= k
      BY <1>1, <1>2, <1>3, <1>9, <3>2 DEF ServerFacts
    <3>4. ~r.reorganised =>
            /\ "mempool" \in DOMAIN r.saw /\ r.saw["mempool"] \in Seq(Txs)
            /\ r.item \in ToSet(r.saw["mempool"]) \cup spentTxIDs[Server]
      BY <1>1, <1>4, <1>9, <2>3 DEF TransferSeen
    <3>5. TransferSeen(r)
      BY <3>1, <3>2, <3>3, <3>4 DEF TransferSeen
    <3>6. Kept(r)
      BY <1>1, <1>3, <1>9, <3>5 DEF Kept, Seen, LengthSeen, RowsSeen, NonceSeen
    <3> QED
      BY <1>5, <2>1, <3>1, <3>6
  <2>4. CASE q.at = 7 /\ kind = "balance"
    <3>1. r.at = 8
      BY <1>1, <2>4
    <3>2. ~r.reorganised =>
            /\ r.saw["nonce"] \in Nat /\ r.saw["mempool"] \in Seq(Txs)
            /\ (r.item \in ToSet(r.saw["mempool"]) \/ r.item.nonce <= r.saw["nonce"])
      BY <1>1, <1>4, <1>9, <2>4 DEF TransferSeen
    <3>3. r.item.nonce \in Nat
      BY <1>1, <1>9, TxsAssumption DEF Shape
    <3>4. ~r.reorganised => nextNonce(r) > r.item.nonce
      BY <1>1, <1>3, <1>9, <3>2, <3>3, Fresh
    <3>5. Replies(r)
      BY <1>1, <1>9, <3>4 DEF Replies
    <3> QED
      BY <1>5, <2>1, <3>1, <3>5
  <2> QED
    BY <1>9, <2>2, <2>3, <2>4, ReadRoutes
<1>10. CASE q.route = "mine"
  <2>1. Kept(r) /\ Replies(r)
    BY <1>1, <1>3, <1>10
       DEF Kept, Seen, LengthSeen, RowsSeen, NonceSeen, TransferSeen, Replies
  <2> QED
    BY <2>1
<1> QED
  BY <1>6, <1>7, <1>8, <1>9, <1>10, ReadRoutes

LEMMA AnswerInvRead ==
  ASSUME AnswerInv, NEW t \in Threads, read(t)
  PROVE  AnswerInv'
<1>1. PICK kind \in {"length", "chain", "mempool", "balance", "nonce", "history"} :
        /\ AtStep(t, kind)
        /\ goOnWith(t, [request[t] EXCEPT
              !.at = @ + 1,
              !.saw = With(@, kind, Values(request[t].address)[kind])])
        /\ UNCHANGED vars
  BY DEF read
<1>2. StateInv /\ RequestInv
  BY DEF AnswerInv
<1>3. PICK q : q = request[t] /\ Served(q) /\ Kept(q) /\ Steps[q.route][q.at] = kind
  BY <1>1, <1>2, AtStepServed DEF AnswerInv, AtStep, Serving
<1>4. PICK r : r = Noted(q, kind, Values(q.address)[kind])
  OBVIOUS
<1>5. goOnWith(t, r)
  BY <1>1, <1>3, <1>4 DEF Noted
<1>6. Shape(r)
  BY <1>3, <1>4, NotedFacts
<1>7. /\ r.at <= Len(Steps[r.route]) => Kept(r)
      /\ r.at > Len(Steps[r.route]) => Replies(r)
  BY <1>2, <1>3, <1>4, ReadKept
<1>8. /\ chain' = chain /\ mempool' = mempool /\ spentTxIDs' = spentTxIDs
      /\ lastNonceMap' = lastNonceMap
  BY <1>1 DEF vars, stateVars
<1>9. (Kept(r)' <=> Kept(r)) /\ (Replies(r)' <=> Replies(r))
  BY <1>8 DEF Kept, Seen, LengthSeen, RowsSeen, NonceSeen, TransferSeen, Replies,
     highestSeenNonce
<1>10. StateInv' /\ Grows(Server) /\ IsPrefix(chain[Server], chain'[Server])
  BY <1>1, <1>2, NodeUntouched
<1> QED
  BY <1>5, <1>6, <1>7, <1>9, <1>10, GoOnKept

\* Which steps of which handlers are neither reads nor the transfer itself.
LEMMA QuietRoutes ==
  ASSUME NEW q, Served(q), NEW step, Steps[q.route][q.at] = step,
         step \in {"know", "cooldown", "mine", "record", "receiver", "receiverHistory", "funds"}
  PROVE  /\ q.route \notin {"chain", "walletTransactions"}
         /\ q.route = "balance" => q.at = 1
         /\ q.route = "send" => q.at <= 3 /\ (step = "receiver" => q.at = 1)
         /\ step = "receiver" => q.route = "send"
<1>1. CASE q.route \in {"chain", "walletTransactions"}
  BY <1>1 DEF Served, Shape, Steps, handleGetChain, handleGetWalletTransactions
<1>2. CASE q.route = "balance"
  BY <1>2 DEF Served, Shape, Steps, handleGetWalletBalance
<1>3. CASE q.route = "send"
  BY <1>3 DEF Served, Shape, Steps, handleSendTransaction
<1>4. CASE q.route \in {"mine", "import"}
  BY <1>4, StepRoutes
<1> QED
  BY <1>1, <1>2, <1>3, <1>4 DEF Served, Shape, Steps

LEMMA AnswerInvQuiet ==
  ASSUME AnswerInv, StateInv', Grows(Server), IsPrefix(chain[Server], chain'[Server]),
         NEW t \in Threads, NEW step, AtStep(t, step), goOn(t),
         step \in {"know", "cooldown", "mine", "record", "receiverHistory", "funds"}
  PROVE  AnswerInv'
<1>1. Served(request[t]) /\ Steps[request[t].route][request[t].at] = step
  BY AtStepServed DEF AnswerInv
<1>2. PICK k : k = request[t].at + 1
  OBVIOUS
<1>3. k \in Nat \ {0} /\ request[t].at \in Nat
  BY <1>1, <1>2 DEF Served, Shape
<1>4. goOnWith(t, [request[t] EXCEPT !.at = k])
  BY <1>1, <1>2 DEF goOn, Served, Shape
<1>5. /\ request[t].route \notin {"chain", "walletTransactions"}
      /\ request[t].route = "balance" => request[t].at = 1
      /\ request[t].route = "send" => request[t].at <= 3
  BY <1>1, QuietRoutes
<1>6. (request[t].route = "balance" => k = 2) /\ (request[t].route = "send" => k <= 4)
  BY <1>2, <1>3, <1>5
<1> QED
  BY <1>1, <1>3, <1>4, <1>5, <1>6, QuietStep

LEMMA AnswerInvReceiver ==
  ASSUME AnswerInv, NEW t \in Threads, checkReceiver(t)
  PROVE  AnswerInv'
<1>1. Served(request[t]) /\ Steps[request[t].route][request[t].at] = "receiver"
  BY AtStepServed DEF AnswerInv, checkReceiver
<1>2. request[t].route = "send" /\ request[t].at = 1
  BY <1>1, QuietRoutes
<1>3. PICK k \in {2, 3} : goOnWith(t, [request[t] EXCEPT !.at = k])
  BY <1>1, <1>2 DEF checkReceiver, Served, Shape
<1>4. UNCHANGED vars /\ StateInv
  BY DEF checkReceiver, AnswerInv
<1>5. StateInv' /\ Grows(Server) /\ IsPrefix(chain[Server], chain'[Server])
  BY <1>4, NodeUntouched
<1> QED
  BY <1>1, <1>2, <1>3, <1>5, QuietStep

\* The transfer is admitted: it is pending from now on.
LEMMA AnswerInvAdd ==
  ASSUME AnswerInv, StateInv', NEW t \in Threads, AtStep(t, "add"),
         addTransaction(Server, request[t].item), goOn(t)
  PROVE  AnswerInv'
<1>1. PICK q : /\ q = request[t] /\ Served(q) /\ Kept(q)
               /\ Steps[q.route][q.at] = "add"
  BY AtStepServed DEF AnswerInv, AtStep, Serving
<1>2. q.route = "send" /\ q.at = 4
  <2>1. q.route = "send"
    BY <1>1, StepRoutes
  <2> QED
    BY <1>1, <2>1 DEF Served, Shape, Steps, handleSendTransaction
<1>3. q.item \in Txs /\ Server \in Nodes /\ StateInv
  BY <1>1, <1>2, ServerAssumption DEF Served, Shape, AnswerInv
<1>4. ChainInv /\ ChainInv' /\ addTransaction(Server, q.item)
  BY <1>1, <1>3 DEF StateInv
<1>5. Grows(Server)
  BY <1>3, <1>4, RunningGrows DEF Running
<1>6. IsPrefix(chain[Server], chain'[Server])
  BY <1>3, <1>4, ServerState, AppendIsLonger DEF addTransaction, ServerFacts
<1>7. q.item \in ToSet(mempool'[Server])
  <2>1. mempool[Server] \in Seq(Txs) /\ mempool'[Server] = Append(mempool[Server], q.item)
    BY <1>3, <1>4 DEF addTransaction, ChainInv, TypeOK
  <2>2. ToSet(Append(mempool[Server], q.item)) = ToSet(mempool[Server]) \cup {q.item}
    BY <1>3, <2>1, AppendSet
  <2> QED
    BY <2>1, <2>2
<1>8. PICK r : r = [q EXCEPT !.at = @ + 1]
  OBVIOUS
<1>9. /\ r.route = "send" /\ r.at = 5 /\ r.item = q.item /\ r.address = q.address
      /\ r.reorganised = q.reorganised /\ Shape(r)
  BY <1>1, <1>2, <1>8 DEF Served, Shape
<1>10. Kept(r)'
  BY <1>1, <1>2, <1>7, <1>9
     DEF Kept, Seen, LengthSeen, RowsSeen, NonceSeen, TransferSeen
<1>11. ~(r.at > Len(Steps[r.route]))
  <2>1. PICK n : n = Len(Steps[r.route])
    OBVIOUS
  <2>2. n = 7
    BY <1>9, <2>1, StepCount
  <2> QED
    BY <1>9, <2>1, <2>2
<1>12. goOnWith(t, r)
  BY <1>1, <1>8 DEF goOn
<1> QED
  BY <1>5, <1>6, <1>9, <1>10, <1>11, <1>12, GoOnKept

\* The server mines: its chain gets a block and keeps the others.
LEMMA AnswerInvMine ==
  ASSUME AnswerInv, StateInv', NEW t \in Threads, mine(t)
  PROVE  AnswerInv'
<1>1. AtStep(t, "mine") /\ goOn(t) /\ minePendingTransactions(Server, request[t].address)
  BY DEF mine
<1>2. Server \in Nodes /\ request[t].address \in Accounts /\ StateInv
  BY <1>1, AtStepServed, ServerAssumption DEF Served, Shape, AnswerInv
<1>3. Grows(Server)
  BY <1>1, <1>2, RunningGrows DEF Running, StateInv
<1>4. IsPrefix(chain[Server], chain'[Server])
  <2>1. chain'[Server] = Append(chain[Server], newBlock(Server, request[t].address))
    BY <1>1, <1>2 DEF minePendingTransactions, StateInv, ChainInv, TypeOK
  <2> QED
    BY <1>2, <2>1, ServerState, AppendIsLonger DEF ServerFacts
<1> QED
  BY <1>1, <1>3, <1>4, AnswerInvQuiet

\* What peers and timers do to the node: requests that lose a block are marked.
LEMMA AnswerInvElsewhere ==
  ASSUME AnswerInv, StateInv', RequestInv', Elsewhere
  PROVE  AnswerInv'
<1>1. Running
  BY ServerAssumption DEF Elsewhere, Running
<1>2. Grows(Server)
  BY <1>1, ServerAssumption, RunningGrows DEF AnswerInv, StateInv
<1>3. answer' = Idle
  BY DEF Elsewhere, Reorganised
<1>4. Replies(answer)'
  BY <1>3, IdleReplies
<1>5. ASSUME NEW t \in Threads, request'[t] # Idle PROVE Kept(request[t])'
  <2>1. PICK p : p = request[t]
    OBVIOUS
  <2>2. PICK q : q = request'[t]
    OBVIOUS
  <2>3. q = IF p # Idle /\ ~IsPrefix(chain[Server], chain'[Server])
            THEN [p EXCEPT !.reorganised = TRUE] ELSE p
    BY <2>1, <2>2 DEF Elsewhere, Reorganised, Serving
  <2>4. p # Idle
    BY <1>5, <2>2, <2>3
  <2>5. Served(p) /\ Kept(p) /\ StateInv
    BY <2>1, <2>4 DEF AnswerInv, RequestInv
  <2>6. Kept(q)'
    BY <1>2, <2>3, <2>4, <2>5, SeenStays
  <2> QED
    BY <2>2, <2>6
<1> QED
  BY <1>4, <1>5 DEF AnswerInv

\* A request that has just come.
LEMMA AnswerInvReceive ==
  ASSUME AnswerInv, RequestInv', NEW t \in Threads, receive(t)
  PROVE  AnswerInv'
<1>1. PICK p \in RequestsOf[t] :
        request' = [request EXCEPT ![t] =
          [route |-> p.route, address |-> p.address, item |-> p.item, at |-> 1,
           saw |-> <<>>, reorganised |-> FALSE]]
  BY DEF receive
<1>2. p \in Requests /\ (p.route = "send" => p.item.from = p.address)
  <2>1. p \in Requests
    BY ServerAssumption
  <2> QED
    BY <2>1 DEF Requests
<1>3. PICK r : r = [route |-> p.route, address |-> p.address, item |-> p.item, at |-> 1,
                    saw |-> <<>>, reorganised |-> FALSE]
  OBVIOUS
<1>4. /\ request' = [u \in Threads |-> request'[u]] /\ request'[t] = r
      /\ \A u \in Threads \ {t} : request'[u] = request[u]
  BY <1>1, <1>3 DEF AnswerInv, RequestInv
<1>5. OneMoves(t, r)
  BY <1>4 DEF OneMoves
<1>6. Kept(r)'
  BY <1>2, <1>3 DEF Kept, Seen, LengthSeen, RowsSeen, NonceSeen, TransferSeen
<1>7. Kept(request[t])'
  BY <1>4, <1>6
<1>8. Replies(answer)'
  BY IdleReplies DEF receive
<1>9. StateInv' /\ Grows(Server) /\ IsPrefix(chain[Server], chain'[Server])
  BY NodeUntouched DEF receive, AnswerInv
<1> QED
  BY <1>5, <1>7, <1>8, <1>9, OneKept

\* A step that changes neither the node nor a request, and completes none.
LEMMA AnswerInvUntouched ==
  ASSUME AnswerInv, UNCHANGED <<vars, request>>, answer' = Idle \/ answer' = answer
  PROVE  AnswerInv'
<1>1. StateInv' /\ RequestInv'
  BY NodeUntouched DEF AnswerInv, RequestInv
<1>2. /\ chain' = chain /\ mempool' = mempool /\ spentTxIDs' = spentTxIDs
      /\ lastNonceMap' = lastNonceMap /\ request' = request
  BY DEF vars, stateVars
<1>3. \A t \in Threads : request'[t] # Idle => Kept(request[t])'
  BY <1>2 DEF AnswerInv, Kept, Seen, LengthSeen, RowsSeen, NonceSeen, TransferSeen
<1>4. Replies(answer)'
  <2>1. CASE answer' = Idle
    BY <2>1, IdleReplies
  <2>2. CASE answer' = answer
    BY <1>2, <2>2 DEF AnswerInv, Replies, highestSeenNonce
  <2> QED
    BY <2>1, <2>2
<1> QED
  BY <1>1, <1>3, <1>4 DEF AnswerInv

LEMMA AnswerInvNext == AnswerInv /\ [HttpNext]_httpVars => AnswerInv'
<1> SUFFICES ASSUME AnswerInv, [HttpNext]_httpVars PROVE AnswerInv'
  OBVIOUS
<1>1. RequestInv /\ StateInv /\ RequestInv' /\ StateInv'
  BY RequestInvNext, ServerStep, StateInvNext DEF AnswerInv
<1>2. ASSUME NEW t \in Threads, receive(t) \/ read(t) \/ mine(t) \/ checkReceiver(t)
      PROVE  AnswerInv'
  BY <1>1, <1>2, AnswerInvReceive, AnswerInvRead, AnswerInvMine, AnswerInvReceiver
<1>3. ASSUME NEW t \in Threads,
             \/ know(t) \/ checkCooldown(t) \/ recordMine(t)
             \/ checkReceiverHistory(t) \/ checkFunds(t)
      PROVE  AnswerInv'
  <2>1. UNCHANGED vars
    BY <1>3 DEF know, checkCooldown, recordMine, checkReceiverHistory, checkFunds
  <2>2. Grows(Server) /\ IsPrefix(chain[Server], chain'[Server])
    BY <1>1, <2>1, NodeUntouched
  <2>3. CASE refuse(t)
    BY <1>1, <2>2, <2>3, RefuseKept
  <2>4. CASE goOn(t)
    <3>1. \E step \in {"know", "cooldown", "mine", "record", "receiverHistory", "funds"} :
            AtStep(t, step)
      BY <1>3 DEF know, checkCooldown, recordMine, checkReceiverHistory, checkFunds
    <3> QED
      BY <1>1, <2>2, <2>4, <3>1, AnswerInvQuiet
  <2> QED
    BY <1>3, <2>3, <2>4 DEF know, checkCooldown, recordMine, checkReceiverHistory, checkFunds
<1>4. ASSUME NEW t \in Threads, add(t) PROVE AnswerInv'
  <2>1. CASE addTransaction(Server, request[t].item) /\ goOn(t)
    BY <1>1, <1>4, <2>1, AnswerInvAdd DEF add
  <2>2. CASE refuse(t) /\ UNCHANGED vars
    BY <1>1, <2>2, NodeUntouched, RefuseKept
  <2> QED
    BY <1>4, <2>1, <2>2 DEF add
<1>5. CASE Elsewhere
  BY <1>1, <1>5, AnswerInvElsewhere
<1>6. CASE RestartServer
  <2>1. \A t \in Threads : request'[t] = Idle
    BY <1>6 DEF RestartServer
  <2>2. Replies(answer)'
    BY <1>6, IdleReplies DEF RestartServer
  <2> QED
    BY <1>1, <2>1, <2>2 DEF AnswerInv
<1>7. CASE UptimeTick \/ UNCHANGED httpVars
  BY <1>7, AnswerInvUntouched DEF UptimeTick, httpVars
<1> QED
  BY <1>2, <1>3, <1>4, <1>5, <1>6, <1>7 DEF HttpNext

LEMMA AnswerInvInit == HttpInit => AnswerInv
<1> SUFFICES ASSUME HttpInit PROVE AnswerInv
  OBVIOUS
<1>1. RequestInv /\ StateInv
  BY RequestInvInit, StateInvInit DEF HttpInit
<1>2. \A t \in Threads : request[t] = Idle
  BY DEF HttpInit
<1>3. Replies(answer)
  BY IdleReplies DEF HttpInit
<1> QED
  BY <1>1, <1>2, <1>3 DEF AnswerInv

-----------------------------------------------------------------------------
(* Theorems *)

\* handleMine mines at most one block for each thread and miner in any period of
\* the cooldown, whichever requests pass its check together, for any number of
\* threads and any cooldown.
THEOREM CooldownHolds == HttpSpec => []CooldownBound
<1>1. CooldownInv => CooldownBound
  BY DEF CooldownInv
<1> QED
  BY <1>1, CooldownInvInit, CooldownInvNext, PTL DEF HttpSpec

\* Every step of a handler is a step of module Blockchain or leaves the chain,
\* the mempool, the account state and the file alone.
THEOREM ServerIsBlockchain == HttpSpec => RefinesBlockchain
<1>1. HttpInit => Init
  BY DEF HttpInit
<1> QED
  BY <1>1, RequestInvInit, RequestInvNext, ServerStep, PTL
     DEF HttpSpec, RefinesBlockchain, Spec

\* So no transfer that is sent to the server, while it mines and its node accepts
\* blocks, replaces its chain and restarts, is confirmed twice.
THEOREM ServerNoDoubleConfirmation == HttpSpec => []NoTxTwice
BY ServerIsBlockchain, NoDoubleConfirmation, PTL DEF RefinesBlockchain

\* handleGetChain: the blocks that are sent are at least as many as the length that
\* is sent with them, for any number of threads, nodes and reorganisations between
\* the two reads.
THEOREM ChainReplyHolds == HttpSpec => []ChainReply
<1>1. AnswerInv => ChainReply
  BY DEF AnswerInv, Replies, ChainReply
<1> QED
  BY <1>1, AnswerInvInit, AnswerInvNext, PTL DEF HttpSpec

\* handleGetWalletTransactions: a confirmed row finds its block in the chain that is
\* read after it, unless the chain lost a block between the reads.
THEOREM RowsAlwaysPlaced == HttpSpec => []RowsPlaced
<1>1. AnswerInv => RowsPlaced
  BY DEF AnswerInv, Replies, RowsPlaced
<1> QED
  BY <1>1, AnswerInvInit, AnswerInvNext, PTL DEF HttpSpec

\* handleGetWalletBalance: the nonce that is offered is at most the one addTransaction
\* expects next, unless the chain lost a block between the reads.
THEOREM NonceNeverGaps == HttpSpec => []NoNonceGap
<1>1. AnswerInv => NoNonceGap
  BY DEF AnswerInv, Replies, NoNonceGap
<1> QED
  BY <1>1, AnswerInvInit, AnswerInvNext, PTL DEF HttpSpec

\* handleSendTransaction: the nonce that is offered next is above the one just used,
\* although the transfer may be mined between the reads, unless the chain lost a block.
THEOREM SendNonceFresh == HttpSpec => []SendNonce
<1>1. AnswerInv => SendNonce
  BY DEF AnswerInv, Replies, SendNonce
<1> QED
  BY <1>1, AnswerInvInit, AnswerInvNext, PTL DEF HttpSpec

=============================================================================
