-------------------------- MODULE SyncContextProofs --------------------------
(* Theorems about the synchronous context of hiredis, for every number of      *)
(* addresses, descriptors, commands and reconnects, and every mode: what a     *)
(* null reply means, which descriptor is open, and which replies are returned. *)
(*                                                                             *)
(* Three invariants carry them: where a call is and what it will return        *)
(* (Control), which descriptor is open at each step of connecting (FdInv), and *)
(* where the answers to the appended commands are (StreamInv).                 *)
EXTENDS SyncContext, SequenceTheorems, TLAPS

Numbers == 1 .. MaxCommands

\* A null reply is returned with the error set.
Control ==
  /\ mode \in Modes /\ flags \in BOOLEAN /\ type \in Setups
  /\ reconnects \in Nat
  /\ pc \in Connecting \cup Calling \cup {"ready", "freed"}
  /\ ret \in {"ok", "err", "null"} /\ err \in Errors
  /\ mode.block /\ pc = "ready" /\ ret = "null" => err # "none"

\* A descriptor is open from socket(2) on, also where the call gives up without
\* an error, and nobody else has it; c->fd is the number of one that is closed
\* only after a redisReconnect.  What the loops over addresses and retries count
\* stays in range.
FdInv ==
  /\ fd \in Descriptors \cup {-1, 0} /\ open \subseteq Descriptors
  /\ others \subseteq Descriptors /\ open \cap others = {}
  /\ cands \in 0 .. NumAddrs /\ reuses \in 0 .. ConnectRetries
  /\ open \subseteq {fd}
  /\ pc \in Setups \cup {"lookup", "socket"} => open = {}
  /\ pc \in {"bind", "connect", "finish"} => open = {fd}
  /\ pc \in Calling \cup {"ready"} /\ err = "none" => open = {fd}
  /\ fd > 0 /\ open = {} => reconnects > 0
  /\ type = "tcp" /\ pc \in {"bind", "connect"} => cands > 0
  /\ type = "tcp" /\ pc \in {"socket", "bind", "connect"} => reuses < ConnectRetries

\* There is no connection before connect(2) has succeeded.
NetInv ==
  /\ net \in {"none", "up", "closed"}
  /\ pc \in Setups \cup {"lookup", "socket", "bind", "connect", "freed"} => net = "none"

LEMMA InitControl == Init => Control /\ FdInv /\ NetInv
PROOF
  <1> SUFFICES ASSUME Init PROVE Control /\ FdInv /\ NetInv
    OBVIOUS
  <1> USE SyncAssumption DEF Init, Setups, AllModes
  <1>1. Control
    BY DEF Control, Connecting, Calling, Errors
  <1>2. FdInv
    <2>1. 0 \in 0 .. NumAddrs /\ 0 \in 0 .. ConnectRetries
      OBVIOUS
    <2>2. CASE mode.kind = "fd"
      BY <2>1, <2>2 DEF FdInv, Calling
    <2>3. CASE mode.kind # "fd"
      BY <2>1, <2>3 DEF FdInv, Calling
    <2> QED
      BY <2>2, <2>3
  <1>3. NetInv
    BY DEF NetInv
  <1> QED
    BY <1>1, <1>2, <1>3

LEMMA ControlStep == Control /\ [Next]_vars => Control'
PROOF
  <1> SUFFICES ASSUME Control, [Next]_vars PROVE Control'
    OBVIOUS
  <1> USE SyncAssumption DEF conn, bufs, peer, hist, rest, Setups, Close
  <1>1. CASE SetupTcp
    BY <1>1 DEF SetupTcp, FailsOpen, Fails, Goto, Control, Connecting, Calling, Errors
  <1>2. CASE SetupUnixFails
    BY <1>2 DEF SetupUnixFails, FailsOpen, Fails, Control, Connecting, Calling, Errors
  <1>3. CASE SetupUnix
    BY <1>3 DEF SetupUnix, Opens, Fails, Goto, Control, Connecting, Calling, Errors
  <1>4. CASE Lookup
    BY <1>4 DEF Lookup, FailsOpen, Fails, Goto, Control, Connecting, Calling, Errors
  <1>5. CASE SocketFails
    BY <1>5 DEF SocketFails, Goto, Control, Connecting, Calling, Errors
  <1>6. CASE NoAddressLeft
    BY <1>6 DEF NoAddressLeft, FailsOpen, Fails, Control, Connecting, Calling, Errors
  <1>7. CASE Socket
    BY <1>7 DEF Socket, Opens, Goto, Control, Connecting, Calling, Errors
  <1>8. CASE Bind
    BY <1>8 DEF Bind, FailsClosed, Fails, CloseFd, FailsOpen, Goto, Control, Connecting,
       Calling, Errors
  <1>9. CASE ConnectUnreachable
    BY <1>9 DEF ConnectUnreachable, Goto, CloseFd, Control, Connecting, Calling, Errors
  <1>10. CASE ConnectAddrInUse
    BY <1>10 DEF ConnectAddrInUse, Fails, Goto, CloseFd, Control, Connecting, Calling,
       Errors
  <1>11. CASE ConnectFails
    BY <1>11 DEF ConnectFails, FailsClosed, Fails, CloseFd, FailsOpen, Control,
       Connecting, Calling, Errors
  <1>12. CASE ConnectOk
    BY <1>12 DEF ConnectOk, Goto, Control, Connecting, Calling, Errors
  <1>13. CASE FinishFails
    BY <1>13 DEF FinishFails, FailsClosed, Fails, CloseFd, Control, Connecting, Calling,
       Errors
  <1>14. CASE Finish
    BY <1>14 DEF Finish, Control, Connecting, Calling, Errors
  <1>15. CASE AppendCommand
    BY <1>15 DEF AppendCommand, AppendOk, AppendFails, Returns, Control, Connecting,
       Calling, Errors
  <1>16. CASE Command
    BY <1>16 DEF Command, AppendOk, AppendFails, Returns, Control, Connecting, Calling,
       Errors
  <1>17. CASE GetReply
    BY <1>17 DEF GetReply, Control, Connecting, Calling, Errors
  <1>18. CASE SetOption
    BY <1>18 DEF SetOption, Returns, Control, Connecting, Calling, Errors
  <1>19. CASE Reconnect
    BY <1>19 DEF Reconnect, Discard, Control, Connecting, Calling, Errors
  <1>20. CASE Free
    BY <1>20 DEF Free, Discard, Control, Connecting, Calling, Errors
  <1>21. CASE GetFromReader
    BY <1>21 DEF GetFromReader, FromReader, Returns, Control, Connecting, Calling,
       Errors
  <1>22. CASE BufferWriteInError
    BY <1>22 DEF BufferWriteInError, Returns, Control, Connecting, Calling, Errors
  <1>23. CASE BufferWriteFails
    BY <1>23 DEF BufferWriteFails, In, IoError, Returns, Control, Connecting, Calling,
       Errors
  <1>24. CASE BufferWrite
    BY <1>24 DEF BufferWrite, In, Control, Connecting, Calling, Errors
  <1>25. CASE BufferWriteDone
    BY <1>25 DEF BufferWriteDone, Control, Connecting, Calling, Errors
  <1>26. CASE BufferRead
    BY <1>26 DEF BufferRead, In, Took, Control, Connecting, Calling, Errors
  <1>27. CASE BufferReadEnd
    BY <1>27 DEF BufferReadEnd, In, IoError, Returns, Control, Connecting, Calling,
       Errors
  <1>28. CASE ReadFromReader
    BY <1>28 DEF ReadFromReader, FromReader, Returns, Control, Connecting, Calling,
       Errors
  <1>29. CASE BufferReadGarbage
    BY <1>29 DEF BufferReadGarbage, In, Took, Control, Connecting, Calling, Errors
  <1>30. CASE BufferReadFails
    BY <1>30 DEF BufferReadFails, In, IoError, Returns, Control, Connecting, Calling,
       Errors
  <1>31. CASE ServerReplies
    BY <1>31 DEF ServerReplies, Control, Connecting, Calling, Errors
  <1>32. CASE PeerCloses
    BY <1>32 DEF PeerCloses, Control, Connecting, Calling, Errors
  <1>33. CASE UNCHANGED vars
    BY <1>33 DEF vars, Control, Connecting, Calling, Errors
  <1>34. CASE FreeKeepFd
    BY <1>34 DEF FreeKeepFd, Control, Connecting, Calling, Errors
  <1>35. CASE OtherOpens
    BY <1>35 DEF OtherOpens, Control, Connecting, Calling, Errors
  <1> QED
    BY <1>1, <1>2, <1>3, <1>4, <1>5, <1>6, <1>7, <1>8, <1>9, <1>10, <1>11, <1>12,
       <1>13, <1>14, <1>15, <1>16, <1>17, <1>18, <1>19, <1>20, <1>21, <1>22, <1>23, <1>24,
       <1>25, <1>26, <1>27, <1>28, <1>29, <1>30, <1>31, <1>32, <1>33,
       <1>34, <1>35 DEF Next, Connect,
       User, Calls

LEMMA PositiveDescriptors == \A d \in Descriptors : d \in Nat /\ d > 0 /\ d # -1
PROOF
  BY SyncAssumption

\* What the helpers do to the descriptors.
LEMMA CloseFdFacts ==
  ASSUME FdInv, CloseFd, open = {fd}
  PROVE  fd' = -1 /\ open' = {} /\ UNCHANGED others
PROOF
  <1>1. fd \in Descriptors /\ fd >= 0 /\ fd \notin others
    BY SyncAssumption DEF FdInv
  <1> QED
    BY <1>1 DEF CloseFd, Close

LEMMA OpensFacts ==
  ASSUME FdInv, Opens, open = {}
  PROVE  /\ fd' \in Descriptors /\ open' = {fd'} /\ UNCHANGED others
         /\ open' \cap others' = {} /\ open' \subseteq Descriptors
PROOF
  BY DEF Opens, FdInv

LEMMA DiscardFacts ==
  ASSUME FdInv, IF fd > 0 THEN Close(fd) ELSE UNCHANGED <<open, others>>
  PROVE  /\ open' = {} /\ others' \subseteq others
         /\ others \ others' # {} => fd > 0 /\ open = {}
PROOF
  <1>1. CASE fd > 0
    <2>1. open' = open \ {fd} /\ others' = others \ {fd}
      BY <1>1 DEF Close
    <2> QED
      BY <1>1, <2>1 DEF FdInv
  <1>2. CASE ~(fd > 0)
    <2>1. fd \notin Descriptors
      BY <1>2, PositiveDescriptors
    <2> QED
      BY <1>2, <2>1 DEF FdInv
  <1> QED
    BY <1>1, <1>2

LEMMA FdStep == FdInv /\ Control /\ [Next]_vars => FdInv'
PROOF
  <1> SUFFICES ASSUME FdInv, Control, [Next]_vars PROVE FdInv'
    OBVIOUS
  <1> USE SyncAssumption DEF conn, bufs, peer, hist, rest, Setups, Close
  <1>1. CASE SetupTcp
    BY <1>1 DEF SetupTcp, FailsOpen, Fails, Goto, FdInv, Control, Connecting, Calling
  <1>2. CASE SetupUnixFails
    <2>1. open = {} /\ UNCHANGED <<type, flags, open, others, cands, reuses>>
      BY <1>2 DEF SetupUnixFails, FailsOpen, Fails, FdInv
    <2>2. pc' = "ready" /\ err' # "none" /\ (fd' = fd \/ fd' = -1) /\ UNCHANGED reconnects
      BY <1>2 DEF SetupUnixFails, FailsOpen, Fails
    <2> QED
      BY <2>1, <2>2 DEF FdInv, Calling
  <1>3. CASE SetupUnix
    <2>1. open = {} /\ Opens /\ type' = "unix" /\ UNCHANGED <<cands, reuses, reconnects>>
      BY <1>3 DEF SetupUnix, FdInv
    <2>2. pc' \in {"ready", "connect"}
      BY <1>3 DEF SetupUnix, Fails, Goto
    <2> QED
      BY <2>1, <2>2, OpensFacts DEF FdInv, Calling
  <1>4. CASE Lookup
    <2>1. CASE FailsOpen("other")
      BY <1>4, <2>1 DEF Lookup, FailsOpen, Fails, FdInv, Calling
    <2>2. CASE /\ Goto("socket") /\ cands' = NumAddrs /\ reuses' = 0
                /\ UNCHANGED <<type, flags, fd, open, others>>
      <3>1. NumAddrs \in 0 .. NumAddrs /\ 0 \in 0 .. ConnectRetries /\ 0 < ConnectRetries
        OBVIOUS
      <3> QED
        BY <1>4, <2>2, <3>1 DEF Lookup, Goto, FdInv, Calling
    <2> QED
      BY <1>4, <2>1, <2>2 DEF Lookup
  <1>5. CASE SocketFails
    BY <1>5 DEF SocketFails, Goto, FdInv, Control, Connecting, Calling
  <1>6. CASE NoAddressLeft
    BY <1>6 DEF NoAddressLeft, FailsOpen, Fails, FdInv, Control, Connecting, Calling
  <1>7. CASE Socket
    <2>1. open = {} /\ Opens /\ pc' = "bind" /\ UNCHANGED <<type, cands, reuses, reconnects>>
      BY <1>7 DEF Socket, Goto, FdInv
    <2>2. cands > 0 /\ pc = "socket"
      BY <1>7 DEF Socket
    <2> QED
      BY <2>1, <2>2, OpensFacts DEF FdInv, Calling
  <1>8. CASE Bind
    <2>1. open = {fd} /\ fd \in Descriptors /\ pc = "bind" /\ UNCHANGED reconnects
      BY <1>8 DEF Bind, FdInv
    <2>2. CASE FailsClosed("io")
      <3>1. CloseFd /\ pc' = "ready" /\ err' = "io" /\ UNCHANGED <<type, cands, reuses>>
        BY <2>2 DEF FailsClosed, Fails
      <3>2. fd' = -1 /\ open' = {} /\ UNCHANGED others
        BY <2>1, <3>1, CloseFdFacts
      <3> QED
        BY <2>1, <3>1, <3>2 DEF FdInv, Calling
    <2>3. CASE \/ FailsOpen("other") \/ FailsOpen(err)
      BY <2>1, <2>3 DEF FailsOpen, Fails, FdInv, Calling
    <2>4. CASE Goto("connect") /\ UNCHANGED conn
      BY <2>1, <2>4 DEF Goto, FdInv, Calling
    <2> QED
      BY <1>8, <2>2, <2>3, <2>4 DEF Bind
  <1>9. CASE ConnectUnreachable
    <2>1. open = {fd} /\ cands > 0 /\ reuses < ConnectRetries
      BY <1>9 DEF ConnectUnreachable, FdInv
    <2>2. /\ CloseFd /\ pc' = "socket" /\ cands' = cands - 1
          /\ UNCHANGED <<type, reuses, reconnects>>
      BY <1>9 DEF ConnectUnreachable, Goto
    <2>3. fd' = -1 /\ open' = {} /\ UNCHANGED others
      BY <2>1, <2>2, CloseFdFacts
    <2> QED
      BY <2>1, <2>2, <2>3 DEF FdInv, Calling
  <1>10. CASE ConnectAddrInUse
    <2>1. open = {fd} /\ cands > 0 /\ reuses < ConnectRetries /\ reuses' = reuses + 1
      BY <1>10 DEF ConnectAddrInUse, FdInv
    <2>2. UNCHANGED <<type, cands, reconnects>>
      BY <1>10 DEF ConnectAddrInUse
    <2>3. reuses' \in 0 .. ConnectRetries
      BY <2>1 DEF FdInv
    <2>4. CASE reuses' >= ConnectRetries
      <3>1. pc' = "ready" /\ UNCHANGED <<err, open, others, fd>>
        BY <1>10, <2>4 DEF ConnectAddrInUse, Fails
      <3> QED
        BY <2>1, <2>2, <2>3, <3>1 DEF FdInv, Calling
    <2>5. CASE ~(reuses' >= ConnectRetries)
      <3>1. pc' = "socket" /\ CloseFd
        BY <1>10, <2>5 DEF ConnectAddrInUse, Goto
      <3>2. fd' = -1 /\ open' = {} /\ UNCHANGED others
        BY <2>1, <2>2, <2>3, <2>5, <3>1, CloseFdFacts
      <3> QED
        BY <2>1, <2>2, <2>3, <2>5, <3>1, <3>2 DEF FdInv, Calling
    <2> QED
      BY <2>4, <2>5
  <1>11. CASE ConnectFails
    <2>1. open = {fd} /\ UNCHANGED reconnects
      BY <1>11 DEF ConnectFails, FdInv
    <2>2. CASE FailsClosed("io")
      <3>1. CloseFd /\ pc' = "ready" /\ err' = "io" /\ UNCHANGED <<type, cands, reuses>>
        BY <2>2 DEF FailsClosed, Fails
      <3>2. fd' = -1 /\ open' = {} /\ UNCHANGED others
        BY <2>1, <3>1, CloseFdFacts
      <3> QED
        BY <2>1, <3>1, <3>2 DEF FdInv, Calling
    <2>3. CASE FailsOpen("io")
      BY <2>1, <2>3 DEF FailsOpen, Fails, FdInv, Calling
    <2> QED
      BY <1>11, <2>2, <2>3 DEF ConnectFails
  <1>12. CASE ConnectOk
    BY <1>12 DEF ConnectOk, Goto, FdInv, Control, Connecting, Calling
  <1>13. CASE FinishFails
    <2>1. open = {fd} /\ UNCHANGED reconnects
      BY <1>13 DEF FinishFails, FdInv
    <2>2. CASE FailsClosed("io")
      <3>1. CloseFd /\ pc' = "ready" /\ err' = "io" /\ UNCHANGED <<type, cands, reuses>>
        BY <2>2 DEF FailsClosed, Fails
      <3>2. fd' = -1 /\ open' = {} /\ UNCHANGED others
        BY <2>1, <3>1, CloseFdFacts
      <3> QED
        BY <2>1, <3>1, <3>2 DEF FdInv, Calling
    <2> QED
      BY <1>13, <2>2 DEF FinishFails
  <1>14. CASE Finish
    BY <1>14 DEF Finish, FdInv, Control, Connecting, Calling
  <1>15. CASE AppendCommand
    BY <1>15 DEF AppendCommand, AppendOk, AppendFails, Returns, FdInv, Control,
       Connecting, Calling
  <1>16. CASE Command
    BY <1>16 DEF Command, AppendOk, AppendFails, Returns, FdInv, Control, Connecting,
       Calling
  <1>17. CASE GetReply
    BY <1>17 DEF GetReply, FdInv, Control, Connecting, Calling
  <1>18. CASE SetOption
    BY <1>18 DEF SetOption, Returns, FdInv, Control, Connecting, Calling
  <1>19. CASE Reconnect
    <2>1. /\ open' = {} /\ others' \subseteq others
          /\ UNCHANGED <<type, fd, cands, reuses>>
      BY <1>19, DiscardFacts DEF Reconnect, Discard
    <2>2. pc' \in Setups /\ reconnects' > 0
      BY <1>19 DEF Reconnect, Control
    <2> QED
      BY <2>1, <2>2 DEF FdInv, Calling
  <1>20. CASE Free
    <2>1. open' = {} /\ others' \subseteq others /\ UNCHANGED <<type, cands, reuses>>
      BY <1>20, DiscardFacts DEF Free, Discard
    <2>2. pc' = "freed" /\ fd' = -1
      BY <1>20 DEF Free
    <2> QED
      BY <2>1, <2>2 DEF FdInv, Calling
  <1>21. CASE GetFromReader
    BY <1>21 DEF GetFromReader, FromReader, Returns, FdInv, Control, Connecting, Calling
  <1>22. CASE BufferWriteInError
    BY <1>22 DEF BufferWriteInError, Returns, FdInv, Control, Connecting, Calling
  <1>23. CASE BufferWriteFails
    BY <1>23 DEF BufferWriteFails, In, IoError, Returns, FdInv, Control, Connecting,
       Calling
  <1>24. CASE BufferWrite
    BY <1>24 DEF BufferWrite, In, FdInv, Control, Connecting, Calling
  <1>25. CASE BufferWriteDone
    BY <1>25 DEF BufferWriteDone, FdInv, Control, Connecting, Calling
  <1>26. CASE BufferRead
    BY <1>26 DEF BufferRead, In, Took, FdInv, Control, Connecting, Calling
  <1>27. CASE BufferReadEnd
    BY <1>27 DEF BufferReadEnd, In, IoError, Returns, FdInv, Control, Connecting,
       Calling
  <1>28. CASE ReadFromReader
    BY <1>28 DEF ReadFromReader, FromReader, Returns, FdInv, Control, Connecting,
       Calling
  <1>29. CASE BufferReadGarbage
    BY <1>29 DEF BufferReadGarbage, In, Took, FdInv, Control, Connecting, Calling
  <1>30. CASE BufferReadFails
    BY <1>30 DEF BufferReadFails, In, IoError, Returns, FdInv, Control, Connecting,
       Calling
  <1>31. CASE ServerReplies
    BY <1>31 DEF ServerReplies, FdInv, Control, Connecting, Calling
  <1>32. CASE PeerCloses
    BY <1>32 DEF PeerCloses, FdInv, Control, Connecting, Calling
  <1>33. CASE UNCHANGED vars
    BY <1>33 DEF vars, FdInv, Control, Connecting, Calling
  <1>34. CASE FreeKeepFd
    BY <1>34 DEF FreeKeepFd, FdInv, Control, Connecting, Calling
  <1>35. CASE OtherOpens
    BY <1>35 DEF OtherOpens, FdInv, Control, Connecting, Calling
  <1> QED
    BY <1>1, <1>2, <1>3, <1>4, <1>5, <1>6, <1>7, <1>8, <1>9, <1>10, <1>11, <1>12,
       <1>13, <1>14, <1>15, <1>16, <1>17, <1>18, <1>19, <1>20, <1>21, <1>22, <1>23, <1>24,
       <1>25, <1>26, <1>27, <1>28, <1>29, <1>30, <1>31, <1>32, <1>33,
       <1>34, <1>35 DEF Next, Connect,
       User, Calls

LEMMA NetStep == NetInv /\ [Next]_vars => NetInv'
PROOF
  <1> SUFFICES ASSUME NetInv, [Next]_vars PROVE NetInv'
    OBVIOUS
  <1> USE SyncAssumption DEF conn, bufs, peer, hist, rest, Setups, Close
  <1>1. CASE SetupTcp
    BY <1>1 DEF SetupTcp, FailsOpen, Fails, Goto, NetInv
  <1>2. CASE SetupUnixFails
    BY <1>2 DEF SetupUnixFails, FailsOpen, Fails, NetInv
  <1>3. CASE SetupUnix
    BY <1>3 DEF SetupUnix, Opens, Fails, Goto, NetInv
  <1>4. CASE Lookup
    BY <1>4 DEF Lookup, FailsOpen, Fails, Goto, NetInv
  <1>5. CASE SocketFails
    BY <1>5 DEF SocketFails, Goto, NetInv
  <1>6. CASE NoAddressLeft
    BY <1>6 DEF NoAddressLeft, FailsOpen, Fails, NetInv
  <1>7. CASE Socket
    BY <1>7 DEF Socket, Opens, Goto, NetInv
  <1>8. CASE Bind
    BY <1>8 DEF Bind, FailsClosed, Fails, CloseFd, FailsOpen, Goto, NetInv
  <1>9. CASE ConnectUnreachable
    BY <1>9 DEF ConnectUnreachable, Goto, CloseFd, NetInv
  <1>10. CASE ConnectAddrInUse
    BY <1>10 DEF ConnectAddrInUse, Fails, Goto, CloseFd, NetInv
  <1>11. CASE ConnectFails
    BY <1>11 DEF ConnectFails, FailsClosed, Fails, CloseFd, FailsOpen, NetInv
  <1>12. CASE ConnectOk
    BY <1>12 DEF ConnectOk, Goto, NetInv
  <1>13. CASE FinishFails
    BY <1>13 DEF FinishFails, FailsClosed, Fails, CloseFd, NetInv
  <1>14. CASE Finish
    BY <1>14 DEF Finish, NetInv
  <1>15. CASE AppendCommand
    BY <1>15 DEF AppendCommand, AppendOk, AppendFails, Returns, NetInv
  <1>16. CASE Command
    BY <1>16 DEF Command, AppendOk, AppendFails, Returns, NetInv
  <1>17. CASE GetReply
    BY <1>17 DEF GetReply, NetInv
  <1>18. CASE SetOption
    BY <1>18 DEF SetOption, Returns, NetInv
  <1>19. CASE Reconnect
    BY <1>19 DEF Reconnect, Discard, NetInv
  <1>20. CASE Free
    BY <1>20 DEF Free, Discard, NetInv
  <1>21. CASE GetFromReader
    BY <1>21 DEF GetFromReader, FromReader, Returns, NetInv
  <1>22. CASE BufferWriteInError
    BY <1>22 DEF BufferWriteInError, Returns, NetInv
  <1>23. CASE BufferWriteFails
    BY <1>23 DEF BufferWriteFails, In, IoError, Returns, NetInv
  <1>24. CASE BufferWrite
    BY <1>24 DEF BufferWrite, In, NetInv
  <1>25. CASE BufferWriteDone
    BY <1>25 DEF BufferWriteDone, NetInv
  <1>26. CASE BufferRead
    BY <1>26 DEF BufferRead, In, Took, NetInv
  <1>27. CASE BufferReadEnd
    BY <1>27 DEF BufferReadEnd, In, IoError, Returns, NetInv
  <1>28. CASE ReadFromReader
    BY <1>28 DEF ReadFromReader, FromReader, Returns, NetInv
  <1>29. CASE BufferReadGarbage
    BY <1>29 DEF BufferReadGarbage, In, Took, NetInv
  <1>30. CASE BufferReadFails
    BY <1>30 DEF BufferReadFails, In, IoError, Returns, NetInv
  <1>31. CASE ServerReplies
    BY <1>31 DEF ServerReplies, NetInv
  <1>32. CASE PeerCloses
    BY <1>32 DEF PeerCloses, NetInv
  <1>33. CASE UNCHANGED vars
    BY <1>33 DEF vars, NetInv
  <1>34. CASE FreeKeepFd
    BY <1>34 DEF FreeKeepFd, NetInv
  <1>35. CASE OtherOpens
    BY <1>35 DEF OtherOpens, NetInv
  <1> QED
    BY <1>1, <1>2, <1>3, <1>4, <1>5, <1>6, <1>7, <1>8, <1>9, <1>10, <1>11, <1>12,
       <1>13, <1>14, <1>15, <1>16, <1>17, <1>18, <1>19, <1>20, <1>21, <1>22, <1>23, <1>24,
       <1>25, <1>26, <1>27, <1>28, <1>29, <1>30, <1>31, <1>32, <1>33,
       <1>34, <1>35 DEF Next, Connect,
       User, Calls

-----------------------------------------------------------------------------
(* Facts about sequences.                                                    *)

\* Concatenation, as an operator the provers need not look into.
Cat(a, b) == a \o b

LEMMA CatFacts ==
  /\ \A a, b \in Seq(Numbers) : Cat(a, b) \in Seq(Numbers)
  /\ \A a, b, c \in Seq(Numbers) : Cat(Cat(a, b), c) = Cat(a, Cat(b, c))
  /\ \A a \in Seq(Numbers) : Cat(a, <<>>) = a /\ Cat(<<>>, a) = a
  /\ \A a \in Seq(Numbers), e \in Numbers :
       Append(a, e) = Cat(a, <<e>>) /\ Append(a, e) \in Seq(Numbers) /\ <<e>> \in Seq(Numbers)
  /\ <<>> \in Seq(Numbers)
PROOF
  <1>1. \A a, b \in Seq(Numbers) : Cat(a, b) \in Seq(Numbers)
    BY ConcatProperties DEF Cat
  <1>2. \A a, b, c \in Seq(Numbers) : Cat(Cat(a, b), c) = Cat(a, Cat(b, c))
    BY ConcatAssociative DEF Cat
  <1>3. \A a \in Seq(Numbers) : Cat(a, <<>>) = a /\ Cat(<<>>, a) = a
    BY ConcatEmptySeq DEF Cat
  <1>4. \A a \in Seq(Numbers), e \in Numbers :
          Append(a, e) = Cat(a, <<e>>) /\ Append(a, e) \in Seq(Numbers) /\ <<e>> \in Seq(Numbers)
    BY AppendIsConcat, AppendProperties DEF Cat
  <1> QED
    BY <1>1, <1>2, <1>3, <1>4

\* A sequence in two parts.
LEMMA CutInTwo ==
  ASSUME NEW s \in Seq(Numbers), NEW k \in 1 .. Len(s)
  PROVE  /\ SubSeq(s, 1, k) \in Seq(Numbers) /\ SubSeq(s, k + 1, Len(s)) \in Seq(Numbers)
         /\ s = Cat(SubSeq(s, 1, k), SubSeq(s, k + 1, Len(s)))
PROOF
  <1>1. Len(s) \in Nat /\ k \in Nat /\ k <= Len(s)
    BY LenProperties
  <1>2. SubSeq(s, 1, k) \in Seq(Numbers) /\ SubSeq(s, k + 1, Len(s)) \in Seq(Numbers)
    BY <1>1, SubSeqProperties, ElementOfSeq
  <1>3. s = SubSeq(s, 1, k) \o SubSeq(s, k + 1, Len(s))
    BY <1>1, ConcatAdjacentSubSeq, SubSeqFull
  <1> QED
    BY <1>2, <1>3 DEF Cat

LEMMA HeadAndTail ==
  ASSUME NEW s \in Seq(Numbers), s # <<>>
  PROVE  Head(s) \in Numbers /\ Tail(s) \in Seq(Numbers) /\ s = Cat(<<Head(s)>>, Tail(s))
PROOF
  <1>1. Len(s) \in Nat \ {0} /\ Head(s) \in Numbers /\ Tail(s) \in Seq(Numbers)
    BY EmptySeq, HeadTailProperties
  <1>2. SubSeq(s, 1, Len(s)) = <<s[1]>> \o SubSeq(s, 1 + 1, Len(s))
    BY <1>1, SubSeqRecursiveFirst
  <1>3. SubSeq(s, 1, Len(s)) = s /\ SubSeq(s, 2, Len(s)) = Tail(s) /\ s[1] = Head(s)
    BY <1>1, SubSeqFull, TailIsSubSeq
  <1> QED
    BY <1>1, <1>2, <1>3 DEF Cat

\* A part of the second sequence goes to the end of the first.
LEMMA MoveSome ==
  ASSUME NEW a \in Seq(Numbers), NEW s \in Seq(Numbers), NEW b \in Seq(Numbers),
         NEW k \in 1 .. Len(s)
  PROVE  Cat(a, Cat(s, b)) = Cat(Cat(a, SubSeq(s, 1, k)), Cat(SubSeq(s, k + 1, Len(s)), b))
PROOF
  <1>1. PICK x, y \in Seq(Numbers) :
          x = SubSeq(s, 1, k) /\ y = SubSeq(s, k + 1, Len(s)) /\ s = Cat(x, y)
    BY CutInTwo
  <1>2. Cat(a, Cat(Cat(x, y), b)) = Cat(Cat(a, x), Cat(y, b))
    BY CatFacts
  <1> QED
    BY <1>1, <1>2

\* The first of the second sequence becomes the last of the first one.
LEMMA MoveHead ==
  ASSUME NEW a \in Seq(Numbers), NEW s \in Seq(Numbers), NEW b \in Seq(Numbers), s # <<>>
  PROVE  Cat(a, Cat(s, b)) = Cat(Append(a, Head(s)), Cat(Tail(s), b))
PROOF
  <1>1. PICK e \in Numbers, y \in Seq(Numbers) :
          e = Head(s) /\ y = Tail(s) /\ s = Cat(<<e>>, y)
    BY HeadAndTail
  <1>2. PICK h \in Seq(Numbers) : h = <<e>> /\ Append(a, e) = Cat(a, h)
    BY CatFacts
  <1>3. Cat(a, Cat(Cat(h, y), b)) = Cat(Cat(a, h), Cat(y, b))
    BY CatFacts
  <1> QED
    BY <1>1, <1>2, <1>3

LEMMA AppendRight ==
  ASSUME NEW a \in Seq(Numbers), NEW b \in Seq(Numbers), NEW e \in Numbers
  PROVE  Append(Cat(a, b), e) = Cat(a, Append(b, e))
PROOF
  <1>1. PICK h \in Seq(Numbers) :
          h = <<e>> /\ \A s \in Seq(Numbers) : Append(s, e) = Cat(s, h)
    <2>1. <<e>> \in Seq(Numbers) /\ \A s \in Seq(Numbers) : Append(s, e) = Cat(s, <<e>>)
      BY CatFacts
    <2> QED
      BY <2>1
  <1>2. Cat(Cat(a, b), h) = Cat(a, Cat(b, h)) /\ Cat(a, b) \in Seq(Numbers)
    BY CatFacts
  <1> QED
    BY <1>1, <1>2

LEMMA PrefixOfCat ==
  ASSUME NEW a \in Seq(Numbers), NEW b \in Seq(Numbers)
  PROVE  IsPrefix(a, Cat(a, b))
PROOF
  <1>1. Len(a) \in Nat /\ Len(b) \in Nat /\ Len(a \o b) = Len(a) + Len(b)
    BY LenProperties, ConcatProperties
  <1>2. CASE Len(a) = 0
    BY <1>1, <1>2, SubSeqEmpty DEF IsPrefix, Cat
  <1>3. CASE Len(a) # 0
    BY <1>1, <1>3, SubSeqOfConcat1 DEF IsPrefix, Cat
  <1> QED
    BY <1>1, <1>2, <1>3 DEF IsPrefix

-----------------------------------------------------------------------------
(* The stream of commands and replies.                                       *)

StreamType ==
  /\ next \in 1 .. MaxCommands + 1
  /\ obuf \in Seq(Numbers) /\ toServer \in Seq(Numbers)
  /\ wire \in Seq(Numbers) /\ rbuf \in Seq(Numbers)
  /\ appended \in Seq(Numbers) /\ returned \in Seq(Numbers)

\* The answers to what was appended are, in that order: returned, in the
\* reader, on the wire, due.  Those that are due are the commands at the server
\* and in the output buffer, until the connection is closed.
Stream(due) ==
  /\ appended = Cat(returned, Cat(rbuf, Cat(wire, due)))
  /\ net # "closed" /\ pc # "freed" => due = Cat(toServer, obuf)

StreamInv == StreamType /\ \E due \in Seq(Numbers) : Stream(due)

LEMMA InitStream == Init => StreamInv
PROOF
  <1> SUFFICES ASSUME Init PROVE StreamInv
    OBVIOUS
  <1>1. StreamType
    BY SyncAssumption, CatFacts DEF Init, StreamType
  <1>2. Stream(<<>>)
    <2>1. Cat(<<>>, <<>>) = <<>>
      BY CatFacts
    <2> QED
      BY <2>1 DEF Init, Stream
  <1> QED
    BY <1>1, <1>2, CatFacts DEF StreamInv

\* A step that leaves the buffers alone.
LEMMA StreamFrame ==
  ASSUME StreamInv, UNCHANGED <<obuf, rbuf, toServer, wire, hist>>,
         net = "closed" \/ pc = "freed" => net' = "closed" \/ pc' = "freed"
  PROVE  StreamInv'
PROOF
  BY DEF StreamInv, StreamType, Stream, hist, Numbers

LEMMA AppendStream ==
  ASSUME StreamInv, AppendOk, next <= MaxCommands, UNCHANGED <<net, wire, toServer>>,
         pc # "freed"
  PROVE  StreamInv'
PROOF
  <1>1. PICK due \in Seq(Numbers) : Stream(due)
    BY DEF StreamInv
  <1>2. next \in Numbers
    BY SyncAssumption DEF StreamInv, StreamType, Numbers
  <1>3. PICK d \in Seq(Numbers) : d = Append(due, next)
    BY <1>2, CatFacts
  <1>4. Append(obuf, next) \in Seq(Numbers) /\ Append(appended, next) \in Seq(Numbers)
    BY <1>2, CatFacts DEF StreamInv, StreamType
  <1>5. StreamType'
    BY <1>2, <1>4, SyncAssumption, SMTT(30) DEF AppendOk, StreamInv, StreamType, Numbers
  <1>6. Append(appended, next) = Cat(returned, Cat(rbuf, Cat(wire, d)))
    <2>1. Cat(wire, due) \in Seq(Numbers) /\ Cat(rbuf, Cat(wire, due)) \in Seq(Numbers)
      BY CatFacts DEF StreamInv, StreamType
    <2>2. Append(appended, next) = Cat(returned, Append(Cat(rbuf, Cat(wire, due)), next))
      BY <1>1, <1>2, <2>1, AppendRight DEF Stream, StreamInv, StreamType
    <2>3. Append(Cat(rbuf, Cat(wire, due)), next) = Cat(rbuf, Append(Cat(wire, due), next))
      BY <1>2, <2>1, AppendRight, ZenonT(30) DEF StreamInv, StreamType
    <2>4. Append(Cat(wire, due), next) = Cat(wire, d)
      BY <1>2, <1>3, AppendRight, ZenonT(30) DEF StreamInv, StreamType
    <2> QED
      BY <2>2, <2>3, <2>4
  <1>7. Append(Cat(toServer, obuf), next) = Cat(toServer, Append(obuf, next))
    BY <1>2, AppendRight, ZenonT(30) DEF StreamInv, StreamType
  <1>8. Stream(d)'
    BY <1>1, <1>3, <1>6, <1>7 DEF AppendOk, Stream
  <1> QED
    BY <1>5, <1>8 DEF StreamInv, Numbers

\* The reader's first reply is returned.
LEMMA TakeStream ==
  ASSUME StreamInv, pc # "freed", NEW l, FromReader(l), l # "freed",
         UNCHANGED <<obuf, toServer, wire, net, next, appended>>
  PROVE  StreamInv'
PROOF
  <1>1. PICK due \in Seq(Numbers) : Stream(due)
    BY DEF StreamInv
  <1>2. CASE UNCHANGED <<rbuf, returned>>
    BY <1>2, StreamFrame DEF hist
  <1>3. CASE rbuf # <<>> /\ returned' = Append(returned, Head(rbuf)) /\ rbuf' = Tail(rbuf)
    <2>1. Head(rbuf) \in Numbers /\ rbuf' \in Seq(Numbers) /\ returned' \in Seq(Numbers)
      BY <1>3, HeadAndTail, CatFacts DEF StreamInv, StreamType
    <2>2. Cat(returned, Cat(rbuf, Cat(wire, due))) = Cat(returned', Cat(rbuf', Cat(wire, due)))
      <3>1. Cat(wire, due) \in Seq(Numbers)
        BY CatFacts DEF StreamInv, StreamType
      <3> QED
        BY <1>3, <3>1, MoveHead DEF StreamInv, StreamType
    <2>3. StreamType'
      BY <2>1 DEF StreamInv, StreamType, Numbers
    <2>4. Stream(due)'
      BY <1>1, <2>2 DEF Stream
    <2> QED
      BY <2>3, <2>4 DEF StreamInv, Numbers
  <1> QED
    BY <1>2, <1>3 DEF FromReader

LEMMA StreamStep == StreamInv /\ Control /\ NetInv /\ [Next]_vars => StreamInv'
PROOF
  <1> SUFFICES ASSUME StreamInv, Control, NetInv, [Next]_vars PROVE StreamInv'
    OBVIOUS
  <1>1. PICK due \in Seq(Numbers) : Stream(due)
    BY DEF StreamInv
  <1> USE DEF bufs, peer, hist, rest
  <1>2. CASE Connect
    <2>1. UNCHANGED <<obuf, rbuf, toServer, wire, hist>> /\ pc # "freed"
      BY <1>2 DEF Connect, SetupTcp, SetupUnixFails, SetupUnix, Lookup, SocketFails,
         NoAddressLeft, Socket, Bind, ConnectUnreachable, ConnectAddrInUse, ConnectFails,
         FinishFails, Finish, ConnectOk
    <2>2. net = "closed" => net' = "closed"
      BY <1>2 DEF Connect, SetupTcp, SetupUnixFails, SetupUnix, Lookup, SocketFails,
         NoAddressLeft, Socket, Bind, ConnectUnreachable, ConnectAddrInUse, ConnectFails,
         FinishFails, Finish, ConnectOk, NetInv
    <2> QED
      BY <2>1, <2>2, StreamFrame
  <1>3. CASE AppendCommand
    <2>1. next <= MaxCommands /\ pc # "freed" /\ UNCHANGED <<net, wire, toServer>>
      BY <1>3 DEF AppendCommand
    <2>2. AppendOk \/ AppendFails
      BY <1>3 DEF AppendCommand
    <2> QED
      BY <2>1, <2>2, AppendStream, StreamFrame DEF AppendFails
  <1>4. CASE Command
    <2>1. next <= MaxCommands /\ pc # "freed" /\ UNCHANGED <<net, wire, toServer>>
      BY <1>4 DEF Command
    <2>2. AppendOk \/ AppendFails
      BY <1>4 DEF Command
    <2> QED
      BY <2>1, <2>2, AppendStream, StreamFrame DEF AppendFails
  <1>5. CASE \/ GetReply \/ SetOption \/ BufferWriteInError \/ BufferWriteFails
             \/ BufferWriteDone \/ BufferReadEnd \/ BufferReadGarbage \/ BufferReadFails
    <2>1. UNCHANGED <<obuf, rbuf, toServer, wire, hist, net>> /\ pc # "freed"
      BY <1>5 DEF GetReply, SetOption, BufferWriteInError, BufferWriteFails,
         BufferWriteDone, BufferReadEnd, BufferReadGarbage, BufferReadFails, In
    <2> QED
      BY <2>1, StreamFrame
  <1>6. CASE Reconnect
    <2>1. StreamType'
      BY <1>6, CatFacts DEF Reconnect, Discard, StreamInv, StreamType, Numbers
    <2>2. PICK d \in Seq(Numbers) : d = <<>>
      BY CatFacts
    <2>3. Stream(d)'
      BY <1>6, <2>2, CatFacts DEF Reconnect, Discard, Stream
    <2> QED
      BY <2>1, <2>3 DEF StreamInv, Numbers
  <1>7. CASE Free \/ FreeKeepFd
    <2>1. PICK d \in Seq(Numbers) : d = Cat(rbuf, Cat(wire, due))
      BY CatFacts DEF StreamInv, StreamType
    <2>2. Cat(<<>>, Cat(<<>>, d)) = d
      BY CatFacts
    <2>3. StreamType'
      <3>1. UNCHANGED hist /\ UNCHANGED reconnects
        BY <1>7 DEF Free, FreeKeepFd
      <3>2. rbuf' = <<>> /\ wire' = <<>> /\ obuf' = <<>> /\ toServer' = <<>>
        BY <1>7 DEF Free, FreeKeepFd, Discard
      <3> QED
        BY <3>1, <3>2, SMTT(30) DEF StreamInv, StreamType, Numbers, hist
    <2>4. Stream(d)'
      BY <1>1, <1>7, <2>1, <2>2 DEF Free, FreeKeepFd, Discard, Stream
    <2> QED
      BY <2>3, <2>4 DEF StreamInv, Numbers
  <1>8. CASE GetFromReader \/ ReadFromReader
    BY <1>8, TakeStream DEF GetFromReader, ReadFromReader
  <1>9. CASE BufferWrite
    <2>1. PICK k \in 1 .. Len(obuf) :
            /\ obuf' = SubSeq(obuf, k + 1, Len(obuf))
            /\ toServer' = IF net = "up" THEN Cat(toServer, SubSeq(obuf, 1, k)) ELSE toServer
      BY <1>9 DEF BufferWrite, Cat
    <2>2. PICK x, y \in Seq(Numbers) :
            x = SubSeq(obuf, 1, k) /\ y = SubSeq(obuf, k + 1, Len(obuf)) /\ obuf = Cat(x, y)
      BY CutInTwo DEF StreamInv, StreamType
    <2>3. toServer' \in Seq(Numbers)
      BY <2>1, <2>2, CatFacts DEF StreamInv, StreamType
    <2>4. StreamType'
      BY <1>9, <2>1, <2>2, <2>3 DEF BufferWrite, StreamInv, StreamType, Numbers
    <2>5. Cat(toServer, Cat(x, y)) = Cat(Cat(toServer, x), y)
      BY CatFacts DEF StreamInv, StreamType
    <2>6. Stream(due)'
      BY <1>1, <1>9, <2>1, <2>2, <2>5 DEF BufferWrite, Stream, In, NetInv
    <2> QED
      BY <2>4, <2>6 DEF StreamInv, Numbers
  <1>10. CASE BufferRead
    <2>1. PICK k \in 1 .. Len(wire) :
            rbuf' = Cat(rbuf, SubSeq(wire, 1, k)) /\ wire' = SubSeq(wire, k + 1, Len(wire))
      BY <1>10 DEF BufferRead, Cat
    <2>2. Cat(rbuf, Cat(wire, due)) = Cat(rbuf', Cat(wire', due))
      BY <2>1, MoveSome DEF StreamInv, StreamType
    <2>3. rbuf' \in Seq(Numbers) /\ wire' \in Seq(Numbers)
      BY <2>1, CutInTwo, CatFacts DEF StreamInv, StreamType
    <2>4. StreamType'
      BY <1>10, <2>3 DEF BufferRead, StreamInv, StreamType, Numbers
    <2>5. Stream(due)'
      BY <1>1, <1>10, <2>2 DEF BufferRead, Stream, In
    <2> QED
      BY <2>4, <2>5 DEF StreamInv, Numbers
  <1>11. CASE ServerReplies
    <2>1. net # "closed" /\ pc # "freed" /\ toServer # <<>>
      BY <1>11 DEF ServerReplies, NetInv
    <2>2. wire' \in Seq(Numbers) /\ toServer' \in Seq(Numbers)
      BY <1>11, <2>1, HeadAndTail, CatFacts DEF ServerReplies, StreamInv, StreamType
    <2>3. Cat(wire, Cat(toServer, obuf)) = Cat(wire', Cat(toServer', obuf))
      BY <1>11, <2>1, MoveHead DEF ServerReplies, StreamInv, StreamType
    <2>4. StreamType'
      BY <1>11, <2>2 DEF ServerReplies, StreamInv, StreamType, Numbers
    <2>5. PICK d \in Seq(Numbers) : d = Cat(toServer', obuf)
      BY <2>2, CatFacts DEF StreamInv, StreamType
    <2>6. Stream(d)'
      BY <1>1, <1>11, <2>1, <2>3, <2>5 DEF ServerReplies, Stream
    <2> QED
      BY <2>4, <2>6 DEF StreamInv, Numbers
  <1>12. CASE PeerCloses
    <2>1. StreamType'
      BY <1>12, EmptySeq DEF PeerCloses, StreamInv, StreamType, Numbers
    <2>2. Stream(due)'
      BY <1>1, <1>12 DEF PeerCloses, Stream
    <2> QED
      BY <2>1, <2>2 DEF StreamInv, Numbers
  <1>13. CASE UNCHANGED vars
    BY <1>13, StreamFrame DEF vars
  <1>14. CASE OtherOpens
    BY <1>14, StreamFrame DEF OtherOpens
  <1> QED
    BY <1>2, <1>3, <1>4, <1>5, <1>6, <1>7, <1>8, <1>9, <1>10, <1>11, <1>12, <1>13,
       <1>14 DEF Next, User, Calls

-----------------------------------------------------------------------------
(* The theorems.                                                             *)

IInv == Control /\ FdInv /\ NetInv /\ StreamInv

LEMMA Invariance == Spec => []IInv
PROOF
  <1>1. Init => IInv
    BY InitControl, InitStream DEF IInv
  <1>2. IInv /\ [Next]_vars => IInv'
    BY ControlStep, FdStep, NetStep, StreamStep DEF IInv
  <1> QED
    BY <1>1, <1>2, PTL DEF Spec

\* When NULL is returned in a blocking context, the error field in the context
\* is set, as the comment in hiredis.c says; and the types.
THEOREM NullHasError == Spec => []NullMeansErr
PROOF
  <1>1. IInv => NullMeansErr
    BY DEF IInv, Control, FdInv, NetInv, StreamInv, StreamType, Numbers, NullMeansErr,
       TypeOK, Setups
  <1> QED
    BY <1>1, Invariance, PTL

\* A number is taken from others only where c->fd is stale: in redisReconnect
\* and redisFree.
LEMMA OthersKeptStep == IInv /\ [Next]_vars => OthersKept
PROOF
  <1> SUFFICES ASSUME IInv, [Next]_vars, others \ others' # {}
               PROVE  pc = "ready" /\ err # "none" /\ reconnects > 0
    BY DEF OthersKept
  <1> USE DEF conn, rest
  <1>1. FdInv
    BY DEF IInv
  <1>2. CASE Connect
    <2>1. UNCHANGED others \/ (CloseFd /\ pc \in {"bind", "connect", "finish"})
      BY <1>2 DEF Connect, SetupTcp, SetupUnixFails, SetupUnix, Opens, Lookup, SocketFails,
         NoAddressLeft, Socket, Bind, ConnectUnreachable, ConnectAddrInUse, ConnectFails,
         ConnectOk, FinishFails, Finish, FailsClosed, FailsOpen, Fails, Goto
    <2>2. CASE CloseFd /\ pc \in {"bind", "connect", "finish"}
      <3>1. open = {fd}
        BY <1>1, <2>2 DEF FdInv
      <3> QED
        BY <1>1, <2>2, <3>1, CloseFdFacts
    <2> QED
      BY <2>1, <2>2
  <1>3. CASE Reconnect \/ Free
    <2>1. fd > 0 /\ open = {} /\ pc = "ready"
      BY <1>1, <1>3, DiscardFacts DEF Reconnect, Free, Discard
    <2> QED
      BY <1>1, <2>1 DEF FdInv
  <1>4. CASE FreeKeepFd \/ OtherOpens
    BY <1>4 DEF FreeKeepFd, OtherOpens
  <1>5. CASE \/ AppendCommand \/ Command \/ GetReply \/ SetOption \/ Calls
             \/ BufferReadGarbage \/ BufferReadFails \/ ServerReplies \/ PeerCloses
             \/ UNCHANGED vars
    BY <1>5 DEF AppendCommand, Command, GetReply, SetOption, Calls, GetFromReader,
       BufferWriteInError, BufferWriteFails, BufferWrite, BufferWriteDone, BufferRead,
       BufferReadEnd, ReadFromReader, BufferReadGarbage, BufferReadFails, ServerReplies,
       PeerCloses, vars
  <1> QED
    BY <1>2, <1>3, <1>4, <1>5 DEF Next, User

\* Whatever fails while connecting or later, at most the descriptor in c->fd is
\* open, and a context without an error that is at its user holds an open one.
\* A descriptor of somebody else is closed only by redisReconnect or redisFree
\* of a context that was reconnected before and has an error.
THEOREM NoDescriptorLost == Spec => DescriptorsOwned
PROOF
  <1>1. IInv' => OneDescriptor'
    BY DEF IInv, FdInv, OneDescriptor
  <1>2. IInv /\ [Next]_vars => [OthersKept]_vars
    BY OthersKeptStep
  <1>3. IInv /\ IInv' /\ [Next]_vars => [OneDescriptor' /\ OthersKept]_vars
    BY <1>1, <1>2
  <1> QED
    BY <1>3, Invariance, PTL DEF Spec, DescriptorsOwned

\* The replies that are returned answer the commands that were appended since
\* the last redisReconnect, in their order and without a gap.
THEOREM OrderKept == Spec => []RepliesInOrder
PROOF
  <1>1. IInv => RepliesInOrder
    <2> SUFFICES ASSUME StreamInv PROVE RepliesInOrder
      BY DEF IInv
    <2>1. PICK due \in Seq(Numbers) : Stream(due)
      BY DEF StreamInv
    <2>2. Cat(rbuf, Cat(wire, due)) \in Seq(Numbers)
      BY CatFacts DEF StreamInv, StreamType
    <2> QED
      BY <2>1, <2>2, PrefixOfCat DEF Stream, StreamInv, StreamType, RepliesInOrder
  <1> QED
    BY <1>1, Invariance, PTL

=============================================================================
