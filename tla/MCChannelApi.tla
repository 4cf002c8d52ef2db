---------------------------- MODULE MCChannelApi ----------------------------
(***************************************************************************)
(* Small instances of ChannelApi.  Each says what is on the chain at the   *)
(* start, the transactions others may send, the calls of the user, and how *)
(* many faults there may be.                                               *)
(***************************************************************************)
EXTENDS ChannelApi

NoTransfers == [n \in {0} |-> 0]
NoLocks == [n \in {0} |-> {}]

Fresh == [net |-> FALSE, gen |-> [p \in Peers |-> 0], chan |-> [p \in Peers |-> EmptyChannel],
          secrets |-> {}]
Registered == [Fresh EXCEPT !.net = TRUE]
\* one channel with each of the peers, with our deposit
WithChannels(ps, deposit) ==
  [Registered EXCEPT !.gen = [p \in Peers |-> IF p \in ps THEN 1 ELSE 0],
     !.chan = [p \in Peers |-> IF p \in ps
                               THEN [EmptyChannel EXCEPT !.state = OPENED, !.deposit[Us] = deposit]
                               ELSE EmptyChannel]]

Theirs(op, p, k, arg) ==
  [by |-> Them, op |-> op, id |-> <<p, k>>, arg |-> arg, call |-> 0, block |-> 0, ok |-> FALSE]
Create == [by |-> Them, op |-> "createERC20TokenNetwork", id |-> <<>>, arg |-> <<>>, call |-> 0,
           block |-> 0, ok |-> FALSE]
Secret == [Create EXCEPT !.op = "registerSecret", !.arg = "s"]

Call(op, p, amount) == [op |-> op, peer |-> p, amount |-> amount]
Faults(starts, crashes, slow, cuts, reorgs) ==
  [starts |-> starts, crashes |-> crashes, slow |-> slow, cuts |-> cuts, reorgs |-> reorgs]

\* a network, a channel and a secret appear while the node is there or not
Discover ==
  [offline |-> {}, storage |-> Fresh, quiet |-> 1, calls |-> <<>>,
   faults |-> Faults(2, 1, 1, 0, 0),
   others |-> {Create, Theirs("openChannel", "p", 0, <<>>), Secret}]

\* a channel is opened, settled and opened again
Reopen ==
  [offline |-> {}, storage |-> Registered, quiet |-> 1, calls |-> <<>>,
   faults |-> Faults(1, 0, 1, 0, 0),
   others |-> {Theirs("openChannel", "p", 0, <<>>), Theirs("closeChannel", "p", 1, <<0>>),
               Theirs("settleChannel", "p", 1, <<Us, 0, Them, 0>>),
               Theirs("openChannel", "p", 0, <<"again">>)}]

\* the user registers the token and opens a channel; others register it too
OpenAndDeposit ==
  [offline |-> {}, storage |-> Fresh, quiet |-> 1,
   calls |-> <<Call("register", "p", 0), Call("open", "p", 1)>>,
   faults |-> Faults(1, 0, 0, 0, 0), others |-> {Create}]

\* the partner opens the channel too and closes it, and blocks are replaced
OpenRace ==
  [offline |-> {}, storage |-> Registered, quiet |-> 1, calls |-> <<Call("open", "p", 1)>>,
   faults |-> Faults(1, 0, 0, 0, 1),
   others |-> {Theirs("openChannel", "p", 0, <<>>), Theirs("closeChannel", "p", 1, <<0>>)}]

\* two deposits, a partner that closes, and a synchronisation that is cut short
DepositRace ==
  [offline |-> {}, storage |-> WithChannels({"p"}, 0), quiet |-> 1,
   calls |-> <<Call("deposit", "p", 1), Call("deposit", "p", 2)>>,
   faults |-> Faults(1, 0, 0, 1, 0), others |-> {Theirs("closeChannel", "p", 1, <<0>>)}]

\* a withdraw, and a close that can not be cooperative
WithdrawAndClose ==
  [offline |-> {<<"close", "p">>}, storage |-> WithChannels({"p"}, 2), quiet |-> 1,
   calls |-> <<Call("withdraw", "p", 1), Call("close", "p", 0)>>,
   faults |-> Faults(1, 0, 0, 0, 0), others |-> {}]

\* the partner withdraws as much as the user asks for
WithdrawTwice ==
  [offline |-> {}, storage |-> [WithChannels({"p"}, 2) EXCEPT !.chan["p"].deposit[Them] = 1],
   quiet |-> 1, calls |-> <<Call("withdraw", "p", 1)>>,
   faults |-> Faults(1, 0, 0, 0, 0), others |-> {Theirs("setTotalWithdraw", "p", 1, <<1, 9>>)}]

\* a withdraw the partner can not answer
WithdrawOffline ==
  [offline |-> {<<"withdraw", "p">>}, storage |-> WithChannels({"p"}, 2), quiet |-> 1,
   calls |-> <<Call("withdraw", "p", 1)>>, faults |-> Faults(1, 0, 0, 0, 0), others |-> {}]

\* a deposit of another channel fills the network while a channel is opened
FullNetwork ==
  [offline |-> {}, storage |-> WithChannels({"q"}, 3), quiet |-> 1,
   calls |-> <<Call("open", "p", 0)>>,
   faults |-> Faults(1, 0, 0, 0, 0), others |-> {Theirs("setTotalDeposit", "q", 1, <<1>>)}]

\* two channels are closed together, one of them cooperatively
LeaveNetwork ==
  [offline |-> {<<"leave", "p">>}, storage |-> WithChannels({"p", "q"}, 1), quiet |-> 1,
   calls |-> <<Call("leave", "p", 0)>>,
   faults |-> Faults(1, 0, 0, 0, 0), others |-> {}]

\* a channel is settled and opened again while it is being closed
CloseAndReopen ==
  [offline |-> {}, storage |-> WithChannels({"p"}, 1), quiet |-> 1,
   calls |-> <<Call("close", "p", 0)>>,
   faults |-> Faults(2, 1, 0, 0, 0), others |-> {Theirs("openChannel", "p", 0, <<>>)}]

\* the partner closes the channel at the same time
CloseRace ==
  [offline |-> {<<"close", "p">>}, storage |-> WithChannels({"p"}, 1), quiet |-> 1,
   calls |-> <<Call("close", "p", 0)>>,
   faults |-> Faults(1, 0, 0, 0, 0), others |-> {Theirs("closeChannel", "p", 1, <<0>>)}]

\* the network is left before there is one
LeaveNothing ==
  [offline |-> {}, storage |-> Fresh, quiet |-> 2,
   calls |-> <<Call("leave", "p", 0), Call("deposit", "p", 1)>>,
   faults |-> Faults(2, 0, 0, 0, 1), others |-> {}]

MCInstances == <<Discover, Reopen, OpenAndDeposit, OpenRace, DepositRace,
                 WithdrawAndClose, WithdrawTwice, WithdrawOffline, FullNetwork,
                 LeaveNetwork, CloseAndReopen, CloseRace, LeaveNothing>>

=============================================================================
