------------------------------- MODULE MCHttp -------------------------------
(* Instances of Http for TLC. *)
EXTENDS Http

OneTransfer == {[from |-> "a", to |-> "b", amount |-> 1, nonce |-> 1, time |-> 0]}
SameDifficulty == [n \in Nodes |-> 1]
NoSkew == [n \in Nodes |-> 0]

\* One thread serves requests that change the node, the other the ones that
\* read it, and both mine.  The receiver's wallet becomes known in all the ways
\* there are: by its history or its balance, asked for or imported.
Ask(route, address) == [route |-> route, address |-> address, item |-> NoTx]
SplitRequests ==
  [t \in Threads |->
     IF t = 1
     THEN {Ask("mine", "a"), Ask("import", "b")} \cup {r \in Requests : r.route = "send"}
     ELSE {Ask("mine", "a"), Ask("chain", "a"), Ask("balance", "a"), Ask("balance", "b"),
           Ask("walletTransactions", "b")}]

\* What decides how the server goes on and what it answers: the account state
\* and the file follow from the chain, and no request here reads the version.
ServerView == <<now, published, chain, mempool, difficulty, request, answer, serverVars, minedAt>>
=============================================================================
