------------------------ MODULE VsecGatewayProofs ------------------------
(***************************************************************************)
(* Proofs about the transactions of VsecGateway for any number of clients, *)
(* any requests and any device.                                            *)
(*                                                                         *)
(* The lock of VsecGateway is the one VsecSemaphoreProofs is about,        *)
(* whatever the transactions, the device and the ioctl handlers do.  What  *)
(* a client knows by itself is in Local; what the gateway registers and    *)
(* the device hold for one that has them to itself is in Sole.             *)
(***************************************************************************)
EXTENDS VsecGateway, VsecSemaphoreProofs

\* The variables of the bodies are functions on the clients.
Shapes ==
  /\ req = [c \in Clients |-> req[c]]
  /\ stage = [c \in Clients |-> stage[c]]
  /\ polls = [c \in Clients |-> polls[c]]
  /\ buf = [c \in Clients |-> buf[c]]
  /\ word = [c \in Clients |-> word[c]]
  /\ err = [c \in Clients |-> err[c]]

\* The stages of a transaction that has still to transfer a dword.
InLoop == {"data", "addr", "wait", "fetch", "bad"}

\* Where the body of a client is, and what that says of its count and error.
Place(c) ==
  /\ pc[c] # "idle" => req[c] \in AnyRequest
  /\ pc[c] = "idle" \/ Trying(c) \/ c \in failed => word[c] = 0 /\ c \notin smashed
  /\ pc[c] = "idle" \/ Trying(c) => err[c] = 0
  /\ c \in failed => err[c] = EINVAL \/ err[c] \in PciErrors
  /\ pc[c] = "idle" => stage[c] \in {"none", "dead"}
  /\ Trying(c) \/ c \in failed => stage[c] \in {"space", "dword"}
  /\ pc[c] = "cs" => stage[c] # "none"
  /\ pc[c] = "clear" /\ c \notin failed => stage[c] = "done"
  /\ stage[c] \in {"space", "status", "dword"} => word[c] = 0
  /\ stage[c] \in {"space", "status"} \cup InLoop => req[c].cmd # "READ_DWORD"
  /\ stage[c] = "dword" => req[c].cmd = "READ_DWORD"
  /\ stage[c] \in InLoop => word[c] < Count(req[c])
  /\ stage[c] \in InLoop \ {"bad"} => req[c].addr + word[c] \in Addrs
  /\ stage[c] = "data" => req[c].cmd \in Writes
  /\ stage[c] = "fetch" => req[c].cmd \notin Writes
  /\ err[c] # 0 => c \in failed \/ stage[c] = "done"
  /\ err[c] # 0 => \/ err[c] = EINVAL
                   \/ err[c] \in PciErrors /\ word[c] = 0
                   \/ err[c] = 4 * word[c] /\ word[c] < Count(req[c])
  /\ c \in smashed => ~Fits(req[c])

\* The types of what belongs to one client.
Typed(c) ==
  /\ req[c] \in AnyRequest \cup {NoRequest}
  /\ req[c].cmd = "READ_DWORD" => Count(req[c]) = 1 /\ Len(req[c].data) = 1
  /\ stage[c] \in Stages
  /\ polls[c] \in 0..MaxPolls
  /\ word[c] \in 0..Count(req[c])
  /\ buf[c] \in [1..Len(req[c].data) -> Values]
  /\ err[c] \in {EINVAL, 4 * word[c], 0} \cup PciErrors

Local(c) == Typed(c) /\ Place(c)

\* The types of the gateway registers and the device.
DeviceTyped ==
  /\ hw \in [space : Spaces, flag : {0, 1}, addr : Addrs, data : Values, busy : BOOLEAN]
  /\ mem \in [Spaces -> [Addrs -> Values]]

\* The place of the i-th dword of c in the device holds what c has for it.
Agrees(c, i) ==
  mem[req[c].space][req[c].addr + i - 1] =
    IF req[c].cmd \in Writes THEN req[c].data[i] ELSE buf[c][i]

\* Value v is what c has to write for the dword it is at; behind the end of
\* its buffer, it may be any.
ToWrite(c, v) == word[c] < Len(req[c].data) => v = req[c].data[word[c] + 1]

\* The operation in the registers is the dword c is at.
InFlight(c) ==
  /\ req[c].cmd # "READ_DWORD" /\ word[c] < Count(req[c])
  /\ hw.space = req[c].space /\ hw.addr = req[c].addr + word[c]
  /\ hw.flag = OperationFlag(c)
  /\ req[c].cmd \in Writes => ToWrite(c, hw.data)

\* The device has served the dword c is at.
Served(c) ==
  LET held == mem[req[c].space][req[c].addr + word[c]]
  IN IF req[c].cmd \in Writes THEN ToWrite(c, held) ELSE held = hw.data

\* What the registers and the device hold for a client that has had them to
\* itself and was answered in time.
Sole(c) ==
  /\ stage[c] \in {"status"} \cup InLoop => hw.space = req[c].space
  /\ hw.busy => stage[c] \in {"wait", "done"} /\ InFlight(c)
  /\ stage[c] = "wait" /\ ~hw.busy => hw.flag = AnsweredFlag(c) /\ Served(c)
  /\ stage[c] = "fetch" => Served(c)
  /\ stage[c] = "addr" /\ req[c].cmd \in Writes => ToWrite(c, hw.data)
  /\ req[c].cmd # "READ_DWORD" =>
       \A i \in 1..word[c] : i <= Len(req[c].data) => Agrees(c, i)

\* Who is alone is the only holder, and gaveUp is about clients.
AloneHolds ==
  /\ \A c \in alone : Holders = {c}
  /\ gaveUp \subseteq Clients /\ smashed \subseteq Clients

\* The inductive invariant.
GwInv ==
  /\ IInv /\ Shapes /\ DeviceTyped /\ AloneHolds
  /\ calls \in 0..MaxCalls
  /\ \A c \in Clients : Local(c)
  /\ \A c \in alone \ gaveUp : Sole(c)

USE GatewayAssumption

----------------------------------------------------------------------------
(* What belongs to one client *)

ClientStep(c) == Call(c) \/ ClientProgress(c) \/ LockError(c) \/ AccessFails(c)

\* How many dwords a size asks for.
LEMMA Counting ==
  ASSUME NEW r, r.size \in Int
  PROVE  Count(r) \in Nat /\ (r.size = 4 => Count(r) = 1) /\ (r.size = 0 => Count(r) = 0)
BY DEF Count

\* A sequence of dwords is a function on its places.
LEMMA Dwords ==
  ASSUME NEW s \in Seq(Values)
  PROVE  Len(s) \in Nat /\ DOMAIN s = 1..Len(s) /\ s \in [1..Len(s) -> Values]
OBVIOUS

\* What a request consists of, and that no request is none.
LEMMA Request ==
  ASSUME NEW r \in AnyRequest
  PROVE  /\ r # NoRequest /\ r.cmd \in Commands /\ r.space \in Spaces /\ r.addr \in Nat
         /\ r.data \in Seq(Values) /\ Len(r.data) \in Nat
         /\ r.size \in Int /\ Count(r) \in Nat
         /\ DOMAIN r.data = 1..Len(r.data) /\ r.data \in [1..Len(r.data) -> Values]
<1>1. /\ r.cmd \in Commands /\ r.space \in Spaces /\ r.addr \in Nat /\ r.size \in Int
      /\ r.data \in Seq(Values)
  BY DEF AnyRequest
<1>2. "none" \notin Commands
  BY DEF Commands, Buffers, Writes
<1>3. r # NoRequest
  BY <1>1, <1>2 DEF NoRequest
<1> QED
  BY <1>1, <1>3, Dwords, Counting

\* No request has no dwords.
LEMMA Nothing ==
  /\ NoRequest.cmd = "none" /\ Len(NoRequest.data) = 0 /\ NoRequest.data = <<>>
  /\ Count(NoRequest) = 0
  /\ NoRequest.cmd \notin Commands /\ NoRequest \notin AnyRequest
  /\ NoRequest.data \in [1..0 -> Values]
<1>1. <<>> \in Seq(Values) /\ Len(<<>>) = 0
  OBVIOUS
<1>2. <<>> \in [1..0 -> Values]
  BY <1>1, Dwords
<1>3. Count(NoRequest) = 0
  BY Counting DEF NoRequest
<1> QED
  BY <1>1, <1>2, <1>3 DEF NoRequest, AnyRequest, Commands, Buffers, Writes

\* The loop goes on with a dword that is left and in reach.
LEMMA LoopGoesOn ==
  ASSUME NEW r \in AnyRequest, NEW w \in 0..Count(r), NEW s, s = LoopAfter(r, w)
  PROVE  /\ s \in {"done", "bad", "data", "addr"}
         /\ s # "done" => w < Count(r)
         /\ s \in {"data", "addr"} => r.addr + w \in Addrs
         /\ s = "data" => r.cmd \in Writes
         /\ s = "addr" => r.cmd \notin Writes
BY Request DEF LoopAfter, Reachable, Addrs

\* A step of one client leaves what belongs to another alone.
LEMMA OthersKeep ==
  ASSUME TypeOK, Shapes, NEW c \in Clients, NEW d \in Clients \ {c}, ClientStep(c)
  PROVE  /\ pc'[d] = pc[d] /\ (d \in failed' <=> d \in failed)
         /\ req'[d] = req[d] /\ stage'[d] = stage[d] /\ polls'[d] = polls[d]
         /\ buf'[d] = buf[d] /\ word'[d] = word[d] /\ err'[d] = err[d]
         /\ (d \in gaveUp' <=> d \in gaveUp) /\ (d \in smashed' <=> d \in smashed)
<1> USE DEF TypeOK, Shapes, Goto, Go
<1>1. CASE Call(c)
  BY <1>1 DEF Call, Start, Begin
<1>2. CASE LockStep(c) \/ LockTimeout(c) \/ LockError(c)
  BY <1>2 DEF LockStep, LockTimeout, LockError, NotLocked, bodyVars, PollTimeout, PollTaken, PollFree, ConfigError,
     ReadCounter, WriteTicket, ReadBack
<1>3. CASE Finish(c)
  BY <1>3 DEF Finish, Clear, ClearError, Return
<1>4. CASE AccessFails(c)
  BY <1>4 DEF AccessFails, BodyError
<1>5. CASE BodyDone(c)
  BY <1>5 DEF BodyDone, Leave, bodyVars
<1>6. CASE FlagSeen(c) \/ WaitExhausted(c)
  BY <1>6 DEF FlagSeen, WaitExhausted, AfterWait, vars
<1>7. CASE SetSpace(c) \/ CheckStatus(c) \/ Refuse(c) \/ WriteData(c) \/ WriteAddress(c)
  BY <1>7 DEF SetSpace, CheckStatus, Refuse, WriteData, WriteAddress, vars
<1>8. CASE FlagNotSeen(c) \/ ReadData(c) \/ RunOff(c) \/ ReadDword(c)
  BY <1>8 DEF FlagNotSeen, ReadData, RunOff, ReadDword, vars
<1> QED
  BY <1>1, <1>2, <1>3, <1>4, <1>5, <1>6, <1>7, <1>8 DEF ClientStep, ClientProgress, Body

\* Functions stay functions.
LEMMA ShapesStep == Shapes /\ [GwNext]_gwVars => Shapes'
<1> SUFFICES ASSUME Shapes, [GwNext]_gwVars PROVE Shapes'
  OBVIOUS
<1> USE DEF Shapes, Go
<1>1. ASSUME NEW c \in Clients, Call(c) PROVE Shapes'
  BY <1>1 DEF Call, Start
<1>2. ASSUME NEW c \in Clients, LockStep(c) \/ LockTimeout(c) \/ LockError(c) \/ BodyDone(c)
      PROVE  Shapes'
  BY <1>2 DEF LockStep, LockTimeout, LockError, NotLocked, BodyDone, bodyVars
<1>3. ASSUME NEW c \in Clients, Finish(c) PROVE Shapes'
  BY <1>3 DEF Finish
<1>4. ASSUME NEW c \in Clients, AccessFails(c) PROVE Shapes'
  BY <1>4 DEF AccessFails
<1>5. ASSUME NEW c \in Clients, FlagSeen(c) \/ WaitExhausted(c) PROVE Shapes'
  BY <1>5 DEF FlagSeen, WaitExhausted, AfterWait
<1>6. ASSUME NEW c \in Clients,
             SetSpace(c) \/ CheckStatus(c) \/ Refuse(c) \/ WriteData(c) \/ WriteAddress(c)
      PROVE  Shapes'
  BY <1>6 DEF SetSpace, CheckStatus, Refuse, WriteData, WriteAddress
<1>7. ASSUME NEW c \in Clients, FlagNotSeen(c) \/ ReadData(c) \/ RunOff(c) \/ ReadDword(c)
      PROVE  Shapes'
  BY <1>7 DEF FlagNotSeen, ReadData, RunOff, ReadDword
<1>8. CASE DeviceAnswers \/ UNCHANGED gwVars
  BY <1>8 DEF DeviceAnswers, gwVars, bodyVars
<1> QED
  BY <1>1, <1>2, <1>3, <1>4, <1>5, <1>6, <1>7, <1>8 DEF GwNext, ClientProgress, Body

\* A value there is.
LEMMA ValueThere == AnyValue \in Values
BY DEF AnyValue

\* The call: a request of user space, or the rest of one.
LEMMA LocalCall ==
  ASSUME TypeOK, Bookkeeping, Shapes, NEW c \in Clients, Local(c), Call(c)
  PROVE  Local(c)'
<1>0. stage[c] = "none"
  BY DEF Call
<1>1. PICK r \in AnyRequest :
        Start(c, r) /\ (r.cmd = "READ_DWORD" => Count(r) = 1 /\ Len(r.data) = 1)
  <2>1. ASSUME NEW r \in Requests, r.cmd = "READ_DWORD" PROVE Count(r) = 1 /\ Len(r.data) = 1
    <3>1. r.size = 4 /\ Len(r.data) = 1
      BY <2>1 DEF Buffers
    <3> QED
      BY <3>1, Counting
  <2>3. CASE \E r \in Requests : Start(c, r)
    BY <2>1, <2>3
  <2>2. CASE req[c] # NoRequest /\ Start(c, req[c])
    BY <2>2 DEF Local, Typed
  <2> QED
    BY <2>2, <2>3 DEF Call
<1>2. /\ pc[c] = "idle" /\ pc'[c] = "poll" /\ failed' = failed
      /\ req'[c] = r /\ buf'[c] = r.data
      /\ stage'[c] = IF r.cmd = "READ_DWORD" THEN "dword" ELSE "space"
      /\ UNCHANGED <<word, polls, err, smashed>>
  BY <1>1 DEF Start, Begin, Goto, TypeOK, Shapes
<1>3. word[c] = 0 /\ err[c] = 0 /\ c \notin failed /\ c \notin smashed
  BY <1>2 DEF Local, Place, Bookkeeping
<1>4. Typed(c)'
  BY <1>1, <1>2, <1>3, Request DEF Local, Typed, Stages
<1>5. Place(c)'
  BY <1>2, <1>3 DEF Place, Trying, InLoop
<1> QED
  BY <1>4, <1>5 DEF Local

\* The steps in the semaphore move no body; those that end it set the error.
LEMMA LocalLock ==
  ASSUME TypeOK, Bookkeeping, Shapes, NEW c \in Clients, Local(c),
         LockStep(c) \/ LockTimeout(c) \/ LockError(c)
  PROVE  Local(c)'
<1>1. /\ UNCHANGED <<req, stage, word, polls, buf, smashed>> /\ Trying(c) /\ pc'[c] # "idle"
      /\ pc'[c] = "cs" \/ Trying(c)' \/ c \in failed'
      /\ c \in failed' => pc'[c] = "clear"
      /\ pc'[c] = "clear" => c \in failed'
  BY DEF LockStep, LockTimeout, LockError, NotLocked, PollTimeout, PollTaken, PollFree, ConfigError,
     ReadCounter, WriteTicket, ReadBack, Trying, Goto, TypeOK, Bookkeeping, bodyVars
<1>2. pc[c] # "idle" /\ err[c] = 0
  BY <1>1 DEF Trying, Local, Place
<1>5. IF c \in failed' THEN err'[c] = EINVAL \/ err'[c] \in PciErrors ELSE err'[c] = 0
  <2>1. CASE LockStep(c)
    BY <1>2, <2>1 DEF LockStep, bodyVars, PollTaken, PollFree, ReadCounter, WriteTicket, ReadBack,
       Trying, Goto, TypeOK, Bookkeeping
  <2>2. CASE LockTimeout(c) \/ LockError(c)
    BY <2>2 DEF LockTimeout, LockError, NotLocked, PollTimeout, ConfigError, Shapes
  <2> QED
    BY <2>1, <2>2
<1>3. Typed(c)'
  BY <1>1, <1>5 DEF Local, Typed
<1>4. Place(c)'
  BY <1>1, <1>2, <1>5 DEF Local, Typed, Place, InLoop, Trying
<1> QED
  BY <1>3, <1>4 DEF Local

\* The end of a call, which may leave the rest of one to do.
LEMMA LocalFinish ==
  ASSUME TypeOK, Bookkeeping, Shapes, NEW c \in Clients, Local(c), Finish(c)
  PROVE  Local(c)'
<1>1. /\ pc[c] = "clear" /\ pc'[c] = "idle" /\ c \notin failed'
      /\ req'[c] = IF RunsOn(c) THEN Rerun(c) ELSE NoRequest
      /\ buf'[c] = req'[c].data /\ stage'[c] \in {"none", "dead"} /\ c \notin smashed'
      /\ word'[c] = 0 /\ polls'[c] = 0 /\ err'[c] = 0
  BY DEF Finish, Clear, ClearError, Return, Goto, TypeOK, Shapes
<1>2. req[c] \in AnyRequest
  BY <1>1 DEF Local, Place
<1>3. Rerun(c) \in AnyRequest /\ Rerun(c).cmd = "READ4_AGAIN"
  BY <1>2, ValueThere DEF Rerun, AnyRequest, Commands
<1>4. req'[c] \in AnyRequest \cup {NoRequest} /\ req'[c].cmd # "READ_DWORD"
  BY <1>1, <1>3, Nothing DEF Commands
<1>5. Count(req'[c]) \in Nat /\ buf'[c] \in [1..Len(req'[c].data) -> Values]
  <2>1. CASE req'[c] \in AnyRequest
    BY <1>1, <2>1, Request
  <2>2. CASE req'[c] = NoRequest
    <3>1. Len(req'[c].data) = 0 /\ Count(req'[c]) = 0 /\ buf'[c] = NoRequest.data
      BY <1>1, <2>2, Nothing
    <3> QED
      BY <3>1, Nothing
  <2> QED
    BY <1>4, <2>1, <2>2
<1>6. Typed(c)'
  BY <1>1, <1>4, <1>5 DEF Typed, Stages
<1>7. Place(c)'
  BY <1>1 DEF Place, Trying, InLoop
<1> QED
  BY <1>6, <1>7 DEF Local

\* The steps of a body.
LEMMA LocalBody ==
  ASSUME TypeOK, Bookkeeping, Shapes, DeviceTyped, NEW c \in Clients, Local(c),
         Body(c) \/ AccessFails(c)
  PROVE  Local(c)'
<1> DEFINE n == Len(req[c].data)
           m == Count(req[c])
<1>c. pc[c] = "cs" /\ c \notin failed
  BY DEF Body, AccessFails, BodyError, SetSpace, CheckStatus, Refuse, WriteData, WriteAddress, FlagSeen,
     FlagNotSeen, WaitExhausted, ReadData, RunOff, ReadDword, BodyDone, Leave, At, Bookkeeping
<1>r. /\ req[c] \in AnyRequest /\ n \in Nat /\ m \in Nat /\ word[c] \in 0..m
      /\ req[c].addr \in Nat /\ req[c].data \in [1..n -> Values]
  BY <1>c, Request DEF Local, Typed, Place
<1>f. stage[c] # "none" /\ polls[c] \in 0..MaxPolls /\ buf[c] \in [1..n -> Values]
      /\ (req[c].cmd = "READ_DWORD" => m = 1 /\ n = 1)
  BY <1>c DEF Local, Typed, Place
<1>k. err[c] = 0 \/ stage[c] = "done"
  BY <1>c DEF Local, Place
<1> USE DEF Shapes, Go, Local, Typed, Place, Trying, InLoop, Stages
<1>1. CASE SetSpace(c)
  BY <1>1, <1>c, <1>r, <1>f, <1>k DEF SetSpace, At, vars
<1>2. CASE CheckStatus(c)
  <2> DEFINE s == LoopAfter(req[c], 0)
  <2>1. CASE stage' = [stage EXCEPT ![c] = s] /\ UNCHANGED err
    <3>1. /\ s \in {"done", "bad", "data", "addr"}
          /\ s # "done" => 0 < m
          /\ s \in {"data", "addr"} => req[c].addr + 0 \in Addrs
          /\ s = "data" => req[c].cmd \in Writes
          /\ s = "addr" => req[c].cmd \notin Writes
      BY <1>r, LoopGoesOn
    <3> HIDE DEF s
    <3>2. stage[c] = "status" /\ word[c] = 0 /\ UNCHANGED <<vars, req, word, polls, buf, smashed>>
          /\ req[c].cmd # "READ_DWORD"
      BY <1>2 DEF CheckStatus, At
    <3> QED
      BY <2>1, <3>1, <3>2, <1>c, <1>r, <1>f, <1>k DEF vars
  <2>2. CASE stage' = [stage EXCEPT ![c] = "done"] /\ err' = [err EXCEPT ![c] = EINVAL]
    BY <1>2, <2>2, <1>c, <1>r, <1>f, <1>k DEF CheckStatus, At, vars, EINVAL
  <2> QED
    BY <1>2, <2>1, <2>2 DEF CheckStatus
<1>3. CASE Refuse(c)
  BY <1>3, <1>c, <1>r, <1>f, <1>k DEF Refuse, At, vars
<1>4. CASE WriteData(c)
  BY <1>4, <1>c, <1>r, <1>f, <1>k DEF WriteData, At, vars
<1>5. CASE WriteAddress(c)
  BY <1>5, <1>c, <1>r, <1>f, <1>k DEF WriteAddress, At, vars
<1>6. ASSUME stage[c] \in {"wait", "fetch"}, UNCHANGED <<vars, req, polls, err>>,
             buf'[c] \in [1..n -> Values],
             c \in smashed' => c \in smashed \/ ~Fits(req[c]),
             word' = [word EXCEPT ![c] = @ + 1],
             stage' = [stage EXCEPT ![c] = LoopAfter(req[c], word'[c])]
      PROVE  Local(c)'
  <2> DEFINE s == LoopAfter(req[c], word[c] + 1)
  <2>0. word[c] < m /\ word[c] + 1 \in 0..m /\ req[c].cmd # "READ_DWORD" /\ err[c] = 0
    BY <1>6, <1>r, <1>k
  <2>1. /\ s \in {"done", "bad", "data", "addr"}
        /\ s # "done" => word[c] + 1 < m
        /\ s \in {"data", "addr"} => req[c].addr + (word[c] + 1) \in Addrs
        /\ s = "data" => req[c].cmd \in Writes
        /\ s = "addr" => req[c].cmd \notin Writes
    BY <2>0, <1>r, LoopGoesOn
  <2>2. word'[c] = word[c] + 1 /\ stage'[c] = s
    BY <1>6
  <2> HIDE DEF s
  <2> QED
    BY <1>6, <2>0, <2>1, <2>2, <1>c, <1>r, <1>f DEF vars
<1>7. CASE FlagSeen(c) \/ WaitExhausted(c)
  <2>1. stage[c] = "wait" /\ UNCHANGED <<vars, req, polls, buf, err, smashed>>
        /\ AfterWait(c)
    BY <1>7 DEF FlagSeen, WaitExhausted, At
  <2>2. CASE req[c].cmd \in Writes
    BY <1>6, <2>1, <2>2, <1>f DEF AfterWait
  <2>3. CASE req[c].cmd \notin Writes
    <3>1. stage' = [stage EXCEPT ![c] = "fetch"] /\ UNCHANGED word
      BY <2>1, <2>3 DEF AfterWait
    <3> QED
      BY <2>1, <2>3, <3>1, <1>c, <1>r, <1>f, <1>k DEF vars
  <2> QED
    BY <2>2, <2>3
<1>8. CASE FlagNotSeen(c)
  BY <1>8, <1>c, <1>r, <1>f, <1>k DEF FlagNotSeen, At, vars
<1>9. CASE ReadData(c)
  <2>1. stage[c] = "fetch" /\ word[c] < m /\ hw.data \in Values
    BY <1>9 DEF ReadData, At, DeviceTyped
  <2>2. buf'[c] \in [1..n -> Values]
    <3>1. CASE Past(c)
      BY <1>9, <1>f, <3>1 DEF ReadData
    <3>2. CASE ~Past(c)
      <4>1. buf'[c] = [buf[c] EXCEPT ![word[c] + 1] = hw.data]
        BY <1>9, <3>2 DEF ReadData
      <4> QED
        BY <1>f, <2>1, <4>1
    <3> QED
      BY <3>1, <3>2
  <2>3. c \in smashed' => c \in smashed \/ ~Fits(req[c])
    BY <1>9, <1>r, <2>1 DEF ReadData, Past, BehindData, Fits
  <2> QED
    BY <1>9, <1>6, <2>1, <2>2, <2>3 DEF ReadData
<1>13. CASE RunOff(c)
  BY <1>13, <1>c, <1>r, <1>f, <1>k DEF RunOff, At, vars
<1>10. CASE ReadDword(c)
  <2>1. PICK v \in Values : buf' = [buf EXCEPT ![c] = <<v>>]
    BY <1>10 DEF ReadDword
  <2>2. req[c].cmd = "READ_DWORD" /\ n = 1 /\ m = 1
    BY <1>10, <1>f DEF ReadDword, At
  <2>3. <<v>> \in Seq(Values) /\ Len(<<v>>) = 1
    OBVIOUS
  <2>4. buf'[c] = <<v>>
    BY <2>1
  <2>5. buf'[c] \in [1..n -> Values]
    BY <2>2, <2>3, <2>4, Dwords
  <2>6. /\ UNCHANGED <<vars, req, polls, err, smashed>> /\ word'[c] = 1 /\ stage'[c] = "done"
        /\ err[c] = 0
    BY <1>10, <1>k DEF ReadDword, At
  <2>7. pc'[c] = "cs" /\ failed' = failed
    BY <2>6, <1>c DEF vars
  <2>8. Typed(c)'
    <3>1. req'[c] = req[c] /\ polls'[c] = polls[c] /\ err'[c] = 0
      BY <2>6
    <3>2. req[c] \in AnyRequest \cup {NoRequest} /\ Len(req'[c].data) = 1
          /\ Count(req'[c]) = 1
      BY <3>1, <2>2, <1>r
    <3>3. buf'[c] \in [1..Len(req'[c].data) -> Values]
      BY <2>2, <2>5, <3>1
    <3> HIDE DEF Shapes
    <3> QED
      BY <3>1, <3>2, <3>3, <2>2, <2>6, <1>f
  <2>9. Place(c)'
    BY <2>6, <2>7, <1>c, <1>r
  <2> QED
    BY <2>8, <2>9
<1>11. CASE AccessFails(c)
  BY <1>11, <1>c, <1>r, <1>f, <1>k DEF AccessFails, BodyError, Goto, TypeOK
<1>12. CASE BodyDone(c)
  BY <1>12, <1>c, <1>r, <1>f, <1>k DEF BodyDone, Leave, Goto, TypeOK, bodyVars
<1> QED
  BY <1>1, <1>2, <1>3, <1>4, <1>5, <1>7, <1>8, <1>9, <1>10, <1>11, <1>12, <1>13 DEF Body

\* What a client knows by itself survives its own steps and those of others.
LEMMA LocalStep ==
  ASSUME TypeOK, Bookkeeping, Shapes, DeviceTyped, NEW c \in Clients, ClientStep(c),
         NEW d \in Clients, Local(d)
  PROVE  Local(d)'
<1>1. CASE d # c
  BY <1>1, OthersKeep DEF Local, Typed, Place, Trying
<1>2. CASE d = c
  BY <1>2, LocalCall, LocalLock, LocalFinish, LocalBody DEF ClientStep, ClientProgress
<1> QED
  BY <1>1, <1>2

----------------------------------------------------------------------------
(* The lock *)

\* A step of the gateway is a step of the semaphore or leaves it alone.
LEMMA GatewayStep == [GwNext]_gwVars => [Next]_vars
<1> SUFFICES ASSUME [GwNext]_gwVars PROVE [Next]_vars
  OBVIOUS
<1>1. ASSUME NEW c \in Clients, Call(c) PROVE Next
  <2>1. Begin(c)
    BY <1>1 DEF Call, Start
  <2> QED
    BY <2>1 DEF Next
<1>2. ASSUME NEW c \in Clients, LockStep(c) \/ LockTimeout(c) PROVE Next
  BY <1>2 DEF LockStep, LockTimeout, Next, Progress
<1>3. ASSUME NEW c \in Clients, Body(c) PROVE [Next]_vars
  <2>1. CASE BodyDone(c)
    BY <2>1 DEF BodyDone, Next, Progress
  <2>2. CASE ~BodyDone(c)
    BY <1>3, <2>2 DEF Body, SetSpace, CheckStatus, Refuse, WriteData, WriteAddress,
       FlagSeen, FlagNotSeen, WaitExhausted, ReadData, RunOff, ReadDword
  <2> QED
    BY <2>1, <2>2
<1>4. ASSUME NEW c \in Clients, Finish(c) PROVE Next
  BY <1>4 DEF Finish, Next, Progress
<1>5. ASSUME NEW c \in Clients, LockError(c) PROVE Next
  BY <1>5 DEF LockError, Next
<1>6. ASSUME NEW c \in Clients, AccessFails(c) PROVE Next
  BY <1>6 DEF AccessFails, Next
<1>7. CASE DeviceAnswers
  BY <1>7 DEF DeviceAnswers
<1>8. CASE UNCHANGED gwVars
  BY <1>8 DEF gwVars
<1> QED
  BY <1>1, <1>2, <1>3, <1>4, <1>5, <1>6, <1>7, <1>8 DEF GwNext, ClientProgress

\* The gateway's locking is the semaphore's protocol: every property proved
\* of VsecSemaphore holds for the transactions.
THEOREM GatewayUsesSemaphore == GwSpec => Spec
<1>1. GwInit => Init
  BY DEF GwInit
<1>2. [GwNext]_gwVars => [Next]_vars
  BY GatewayStep
<1> QED
  BY <1>1, <1>2, PTL DEF GwSpec, Spec

\* Two transactions run at once only after one of them was robbed.
THEOREM GatewayExclusion == GwSpec => []MutualExclusion
BY GatewayUsesSemaphore, Exclusion, PTL

----------------------------------------------------------------------------
(* The gateway registers and the device *)

\* The registers and the device hold values of their types.
LEMMA DeviceStep ==
  ASSUME DeviceTyped, \A c \in Clients : Local(c), [GwNext]_gwVars
  PROVE  DeviceTyped'
<1> USE DEF DeviceTyped
<1>1. ASSUME NEW c \in Clients, SetSpace(c) \/ WriteData(c) \/ WriteAddress(c) PROVE DeviceTyped'
  <2>1. pc[c] = "cs" /\ req[c] \in AnyRequest
    BY <1>1 DEF SetSpace, WriteData, WriteAddress, At, Local, Place
  <2>2. CASE SetSpace(c)
    BY <2>1, <2>2, Request DEF SetSpace
  <2>3. CASE WriteData(c)
    <3>1. word[c] \in Nat
      BY <2>1, <2>3, Request DEF WriteData, At, Local, Typed, Place, InLoop
    <3>2. Sent(c) \subseteq Values
      BY <2>1, <3>1, Request DEF Sent, Past, BehindData
    <3> QED
      BY <2>3, <3>2 DEF WriteData
  <2>4. CASE WriteAddress(c)
    BY <2>4 DEF WriteAddress, At, Local, Place, InLoop, OperationFlag
  <2> QED
    BY <1>1, <2>2, <2>3, <2>4
<1>2. CASE DeviceAnswers
  <2>1. CASE hw.flag = 0
    <3>1. mem[hw.space][hw.addr] \in Values
      OBVIOUS
    <3>2. UNCHANGED mem /\ hw' = [hw EXCEPT !.data = mem[hw.space][hw.addr], !.flag = 1, !.busy = FALSE]
      BY <1>2, <2>1 DEF DeviceAnswers
    <3> QED
      BY <3>1, <3>2
  <2>2. CASE hw.flag = 1
    <3>1. /\ mem' = [mem EXCEPT ![hw.space][hw.addr] = hw.data]
          /\ hw' = [hw EXCEPT !.flag = 0, !.busy = FALSE]
      BY <1>2, <2>2 DEF DeviceAnswers
    <3>2. mem' \in [Spaces -> [Addrs -> Values]]
      BY <3>1
    <3>3. hw' \in [space : Spaces, flag : {0, 1}, addr : Addrs, data : Values, busy : BOOLEAN]
      BY <3>1
    <3> QED
      BY <3>2, <3>3
  <2> QED
    BY <2>1, <2>2
<1>3. ASSUME NEW c \in Clients, ClientStep(c), ~(SetSpace(c) \/ WriteData(c) \/ WriteAddress(c))
      PROVE  UNCHANGED <<hw, mem>>
  <2>1. Call(c) => UNCHANGED <<hw, mem>>
    BY DEF Call, Start
  <2> QED
    BY <1>3, <2>1 DEF ClientStep, ClientProgress, LockStep, LockTimeout, LockError, NotLocked, AccessFails, Finish, Body,
       CheckStatus, Refuse, FlagSeen, FlagNotSeen, WaitExhausted, ReadData, RunOff, ReadDword, BodyDone
<1>4. CASE UNCHANGED gwVars
  BY <1>4 DEF gwVars
<1> QED
  BY <1>1, <1>2, <1>3, <1>4 DEF GwNext, ClientStep

\* A client that does not hold leaves the registers and the device alone, ...
LEMMA OnlyHoldersTouch ==
  ASSUME NEW c \in Clients, ClientStep(c), c \notin Holders
  PROVE  UNCHANGED <<hw, mem>>
<1>1. pc[c] # "cs"
  BY DEF Holders, Holding
<1>2. ~Body(c) /\ ~AccessFails(c)
  BY <1>1 DEF Body, AccessFails, BodyError, SetSpace, CheckStatus, Refuse, WriteData, WriteAddress,
     FlagSeen, FlagNotSeen, WaitExhausted, ReadData, RunOff, ReadDword, BodyDone, Leave, At
<1> QED
  BY <1>2 DEF ClientStep, ClientProgress, Call, Start, LockStep, LockTimeout, LockError, NotLocked, Finish

\* ... and comes to hold with its body still to begin.
LEMMA HoldBegins ==
  ASSUME TypeOK, Bookkeeping, NEW c \in Clients, Local(c), ClientStep(c),
         c \notin Holders, c \in Holders'
  PROVE  /\ UNCHANGED <<req, stage, word, hw, mem>>
         /\ stage[c] \in {"space", "dword"} /\ word[c] = 0
<1>1. pc[c] # "cs" /\ (pc[c] = "clear" => c \in failed)
  BY DEF Holders, Holding
<1>2. pc'[c] = "cs" \/ (pc'[c] = "clear" /\ c \notin failed')
  BY DEF Holders, Holding
<1>3. ~Body(c) /\ ~AccessFails(c)
  BY <1>1 DEF Body, AccessFails, BodyError, SetSpace, CheckStatus, Refuse, WriteData, WriteAddress,
     FlagSeen, FlagNotSeen, WaitExhausted, ReadData, RunOff, ReadDword, BodyDone, Leave, At
<1>4. ~Call(c) /\ ~Finish(c) /\ ~LockTimeout(c) /\ ~LockError(c)
  BY <1>2 DEF Call, Start, Begin, Finish, Clear, ClearError, Return, LockTimeout, PollTimeout,
     LockError, ConfigError, Goto,
     TypeOK
<1>5. LockStep(c)
  BY <1>3, <1>4 DEF ClientStep, ClientProgress
<1>6. Trying(c) /\ UNCHANGED <<req, stage, word, hw, mem>>
  BY <1>5 DEF LockStep, bodyVars, Trying, PollTimeout, PollTaken, PollFree, ReadCounter, WriteTicket,
     ReadBack
<1> QED
  BY <1>6 DEF Local, Place

\* Places of different dwords are different places.
LEMMA SoleDevice ==
  ASSUME DeviceTyped, NEW c \in Clients, Local(c), Sole(c), DeviceAnswers
  PROVE  Sole(c)'
<1> DEFINE w == word[c]
           a == req[c].addr
<1>1. hw.busy /\ UNCHANGED <<req, stage, word, buf>>
  BY DEF DeviceAnswers, bodyVars
<1>2. stage[c] \in {"wait", "done"} /\ InFlight(c) /\ req[c] \in AnyRequest
  <2>1. stage[c] \in {"wait", "done"} /\ InFlight(c)
    BY <1>1 DEF Sole
  <2>2. req[c] # NoRequest
    BY <2>1, Nothing DEF InFlight, Local, Typed
  <2> QED
    BY <2>1, <2>2 DEF Local, Typed
<1>3. /\ w \in Nat /\ a \in Nat /\ a + w \in Addrs /\ req[c].space \in Spaces
      /\ hw.addr = a + w /\ hw.space = req[c].space
  BY <1>2, Request DEF InFlight, DeviceTyped, Local, Typed
<1>4. req[c].cmd # "READ_DWORD" /\ \A i \in 1..w : i <= Len(req[c].data) => Agrees(c, i)
  BY <1>2 DEF Sole, InFlight
<1>5. CASE hw.flag = 0
  <2>1. req[c].cmd \notin Writes
    BY <1>2, <1>5 DEF InFlight, OperationFlag
  <2>2. /\ hw' = [hw EXCEPT !.data = mem[hw.space][hw.addr], !.flag = 1, !.busy = FALSE]
        /\ mem' = mem
    BY <1>5 DEF DeviceAnswers
  <2>3. hw'.space = hw.space /\ hw'.data = mem[req[c].space][a + w] /\ hw'.flag = 1 /\ ~hw'.busy
    BY <1>3, <2>2 DEF DeviceTyped
  <2>4. Served(c)' /\ AnsweredFlag(c)' = 1
    BY <1>1, <2>1, <2>2, <2>3 DEF Served, AnsweredFlag
  <2>5. \A i \in 1..w : i <= Len(req[c].data) => Agrees(c, i)'
    BY <1>1, <1>4, <2>2 DEF Agrees
  <2> QED
    BY <1>1, <1>2, <1>3, <2>3, <2>4, <2>5 DEF Sole, InLoop
<1>6. CASE hw.flag = 1
  <2>1. req[c].cmd \in Writes /\ ToWrite(c, hw.data)
    BY <1>2, <1>6 DEF InFlight, OperationFlag
  <2>2. /\ hw' = [hw EXCEPT !.flag = 0, !.busy = FALSE]
        /\ mem' = [mem EXCEPT ![hw.space][hw.addr] = hw.data]
    BY <1>6 DEF DeviceAnswers
  <2>3. hw'.space = hw.space /\ hw'.flag = 0 /\ ~hw'.busy
    BY <2>2 DEF DeviceTyped
  <2>4. /\ mem'[req[c].space][a + w] = hw.data
        /\ \A b \in Addrs : b # a + w => mem'[req[c].space][b] = mem[req[c].space][b]
    BY <1>3, <2>1, <2>2 DEF DeviceTyped
  <2>5. Served(c)' /\ AnsweredFlag(c)' = 0
    BY <1>1, <2>1, <2>4 DEF Served, AnsweredFlag, ToWrite
  <2>6. ASSUME NEW i \in 1..w, i <= Len(req[c].data) PROVE Agrees(c, i)'
    <3>1. a + i - 1 \in Addrs /\ a + i - 1 # a + w
      BY <1>3 DEF Addrs
    <3> QED
      BY <1>1, <1>4, <2>1, <2>4, <2>6, <3>1 DEF Agrees
  <2> QED
    BY <1>1, <1>2, <1>3, <2>3, <2>5, <2>6 DEF Sole, InLoop
<1> QED
  BY <1>5, <1>6 DEF DeviceAnswers

\* A dword that is done with: the loop goes on with the next one.
LEMMA SoleNext ==
  ASSUME Shapes, DeviceTyped, NEW c \in Clients, Local(c), Sole(c),
         stage[c] \in {"wait", "fetch"}, ~hw.busy, Served(c),
         req' = req, hw' = hw, mem' = mem,
         word' = [word EXCEPT ![c] = @ + 1],
         stage' = [stage EXCEPT ![c] = LoopAfter(req[c], word'[c])],
         IF req[c].cmd \in Writes \/ Past(c)
         THEN buf' = buf
         ELSE buf' = [buf EXCEPT ![c][word[c] + 1] = hw.data]
  PROVE  Sole(c)'
<1> DEFINE w == word[c]
           n == Len(req[c].data)
           m == Count(req[c])
<1>1. /\ req[c] \in AnyRequest /\ n \in Nat /\ m \in Nat /\ w \in Nat /\ w < m
      /\ req[c].addr \in Nat /\ buf[c] \in [1..n -> Values]
  <2>1. w \in 0..m /\ w < m
    BY DEF Local, Typed, Place, InLoop
  <2>2. req[c] # NoRequest
    BY <2>1, Nothing
  <2>3. req[c] \in AnyRequest
    BY <2>2 DEF Local, Typed
  <2> QED
    BY <2>1, <2>3, Request DEF Local, Typed
<1>2. word'[c] = w + 1 /\ stage'[c] = LoopAfter(req[c], w + 1)
  BY DEF Shapes
<1>3. /\ stage'[c] \in {"done", "bad", "data", "addr"}
      /\ stage'[c] = "addr" => req[c].cmd \notin Writes
  BY <1>1, <1>2, LoopGoesOn
<1>4. ASSUME req[c].cmd # "READ_DWORD", NEW i \in 1..(w + 1), i <= n PROVE Agrees(c, i)'
  <2>1. CASE req[c].cmd \in Writes
    <3>1. CASE i = w + 1
      <4>1. req[c].addr + i - 1 = req[c].addr + w /\ i = w + 1
        BY <1>1, <3>1
      <4>2. mem[req[c].space][req[c].addr + w] = req[c].data[w + 1]
        BY <1>1, <1>4, <2>1, <3>1 DEF Served, ToWrite
      <4> QED
        BY <2>1, <4>1, <4>2 DEF Agrees
    <3>2. CASE i # w + 1
      <4>1. i \in 1..w
        BY <1>1, <3>2
      <4>2. Agrees(c, i)
        BY <1>4, <4>1 DEF Sole
      <4> QED
        BY <2>1, <4>2 DEF Agrees
    <3> QED
      BY <3>1, <3>2
  <2>2. CASE req[c].cmd \notin Writes
    <3>0. ASSUME w < n PROVE buf'[c] = [buf[c] EXCEPT ![w + 1] = hw.data]
      <4>1. ~Past(c)
        BY <1>1, <3>0 DEF Past, BehindData
      <4>2. buf' = [buf EXCEPT ![c][word[c] + 1] = hw.data]
        BY <2>2, <4>1
      <4>3. buf = [d \in Clients |-> buf[d]]
        BY DEF Shapes
      <4> QED
        BY <4>2, <4>3
    <3>1. \/ w < n /\ buf'[c] = [buf[c] EXCEPT ![w + 1] = hw.data]
          \/ ~(w < n) /\ buf'[c] = buf[c]
      BY <1>1, <3>0 DEF Past, BehindData
    <3>2. CASE i = w + 1
      <4>0. w + 1 \in 1..n /\ w < n
        BY <1>1, <1>4, <3>2
      <4>1. buf'[c][i] = hw.data
        BY <1>1, <4>0, <3>1, <3>2
      <4>2. req[c].addr + i - 1 = req[c].addr + w
        BY <1>1, <3>2
      <4> QED
        BY <2>2, <4>1, <4>2 DEF Served, Agrees
    <3>3. CASE i # w + 1
      <4>1. i \in 1..w /\ i \in 1..n
        BY <1>1, <1>4, <3>3
      <4>2. buf'[c][i] = buf[c][i]
        BY <1>1, <3>1, <3>3, <4>1
      <4> QED
        BY <1>4, <2>2, <4>1, <4>2 DEF Sole, Agrees
    <3> QED
      BY <3>2, <3>3
  <2> QED
    BY <2>1, <2>2
<1> QED
  BY <1>2, <1>3, <1>4 DEF Sole, InLoop

\* A flag that answers has been answered: an operation still in flight has
\* the other value.
LEMMA FlagsDiffer ==
  ASSUME NEW c \in Clients, hw.flag = AnsweredFlag(c)
  PROVE  ~InFlight(c)
BY DEF AnsweredFlag, InFlight, OperationFlag

\* The steps of a body that has the registers to itself.
LEMMA SoleBody ==
  ASSUME TypeOK, Shapes, DeviceTyped, NEW c \in Clients, Local(c), Sole(c),
         Body(c) \/ AccessFails(c), c \notin gaveUp'
  PROVE  Sole(c)'
<1> USE DEF Shapes, Go, At, bodyVars
<1>1. CASE SetSpace(c)
  <2>1. stage[c] = "space" /\ word[c] = 0 /\ ~hw.busy
    BY <1>1 DEF SetSpace, Local, Place, Sole
  <2>2. /\ hw'.space = req[c].space /\ ~hw'.busy /\ UNCHANGED <<req, word, buf, mem>>
        /\ stage'[c] = "status"
    BY <1>1, <2>1 DEF SetSpace, DeviceTyped
  <2> QED
    BY <2>1, <2>2 DEF Sole, InLoop
<1>2. CASE CheckStatus(c)
  <2>1. stage[c] = "status" /\ word[c] = 0 /\ ~hw.busy /\ hw.space = req[c].space
    BY <1>2 DEF CheckStatus, Local, Place, Sole
  <2>2. UNCHANGED <<req, word, buf, hw, mem>>
    BY <1>2 DEF CheckStatus
  <2>3. /\ stage'[c] \in {"done", "bad", "data", "addr"}
        /\ stage'[c] = "addr" => req[c].cmd \notin Writes
    <3>1. req[c] \in AnyRequest /\ 0 \in 0..Count(req[c])
      BY <1>2, Request DEF CheckStatus, Local, Place
    <3>2. stage'[c] = "done" \/ stage'[c] = LoopAfter(req[c], 0)
      BY <1>2 DEF CheckStatus
    <3> QED
      BY <3>1, <3>2, LoopGoesOn
  <2> QED
    BY <2>1, <2>2, <2>3 DEF Sole, InLoop
<1>3. CASE Refuse(c)
  <2>1. stage[c] = "bad" /\ UNCHANGED <<req, word, buf, hw, mem>> /\ stage'[c] = "done"
    BY <1>3 DEF Refuse
  <2> QED
    BY <2>1 DEF Sole, InLoop, Agrees
<1>4. CASE WriteData(c)
  <2>1. PICK v \in Sent(c) :
          /\ stage[c] = "data" /\ UNCHANGED <<req, word, buf, mem>> /\ stage'[c] = "addr"
          /\ hw' = [hw EXCEPT !.data = v]
    BY <1>4 DEF WriteData
  <2>2. hw'.space = hw.space /\ hw'.busy = hw.busy /\ hw'.data = v
    BY <2>1 DEF DeviceTyped
  <2>3. ToWrite(c, hw.data)'
    <3>1. word[c] \in Nat /\ Len(req[c].data) \in Nat
      BY Request, Nothing DEF Local, Typed
    <3> QED
      BY <2>1, <2>2, <3>1 DEF ToWrite, Sent, Past, BehindData
  <2> QED
    BY <2>1, <2>2, <2>3 DEF Sole, InLoop, Agrees
<1>5. CASE WriteAddress(c)
  <2>1. /\ stage[c] = "addr" /\ UNCHANGED <<req, word, buf, mem>> /\ stage'[c] = "wait"
        /\ hw' = [hw EXCEPT !.flag = OperationFlag(c), !.addr = req[c].addr + word[c], !.busy = TRUE]
    BY <1>5 DEF WriteAddress
  <2>2. /\ hw'.space = hw.space /\ hw'.busy /\ hw'.data = hw.data
        /\ hw'.flag = OperationFlag(c) /\ hw'.addr = req[c].addr + word[c]
    BY <2>1 DEF DeviceTyped
  <2>3. word[c] < Count(req[c]) /\ req[c].cmd # "READ_DWORD"
    BY <2>1 DEF Local, Place, InLoop
  <2>4. InFlight(c)'
    BY <2>1, <2>2, <2>3 DEF InFlight, Sole, InLoop, OperationFlag, ToWrite
  <2> QED
    BY <2>1, <2>2, <2>4 DEF Sole, InLoop, Agrees
<1>6. CASE FlagSeen(c)
  <2>1. stage[c] = "wait" /\ UNCHANGED <<req, buf, hw, mem>>
    BY <1>6 DEF FlagSeen
  <2>2. ~hw.busy /\ Served(c)
    BY <1>6, <2>1, FlagsDiffer DEF FlagSeen, Sole
  <2>3. CASE req[c].cmd \in Writes
    BY <1>6, <2>1, <2>2, <2>3, SoleNext DEF FlagSeen, AfterWait
  <2>4. CASE req[c].cmd \notin Writes
    <3>1. stage'[c] = "fetch" /\ UNCHANGED word
      BY <1>6, <2>4 DEF FlagSeen, AfterWait
    <3>2. Served(c)'
      BY <2>1, <2>2, <3>1 DEF Served, ToWrite
    <3> QED
      BY <2>1, <2>2, <3>1, <3>2 DEF Sole, InLoop, Agrees
  <2> QED
    BY <2>3, <2>4
<1>7. CASE FlagNotSeen(c) \/ BodyDone(c)
  <2>1. UNCHANGED <<req, stage, word, buf, hw, mem>>
    BY <1>7 DEF FlagNotSeen, BodyDone
  <2> QED
    BY <2>1 DEF Sole, InFlight, Served, ToWrite, AnsweredFlag, OperationFlag, Agrees
<1>8. CASE ReadData(c)
  <2>1. /\ stage[c] = "fetch" /\ ~hw.busy /\ Served(c) /\ req[c].cmd \notin Writes
    BY <1>8 DEF ReadData, Sole, Local, Place
  <2>2. IF Past(c) THEN buf' = buf ELSE buf' = [buf EXCEPT ![c][word[c] + 1] = hw.data]
    BY <1>8 DEF ReadData
  <2> QED
    BY <1>8, <2>1, <2>2, SoleNext DEF ReadData
<1>12. CASE RunOff(c)
  <2>1. /\ stage[c] \in {"data", "fetch"} /\ UNCHANGED <<req, word, buf, hw, mem>>
        /\ stage'[c] = "dead"
    BY <1>12 DEF RunOff
  <2> QED
    BY <2>1 DEF Sole, InLoop, Agrees
<1>9. CASE ReadDword(c)
  <2>1. /\ stage[c] = "dword" /\ req[c].cmd = "READ_DWORD" /\ ~hw.busy
        /\ UNCHANGED <<req, hw, mem>> /\ stage'[c] = "done"
    BY <1>9 DEF ReadDword, Sole, Local, Place
  <2> QED
    BY <2>1 DEF Sole, InLoop
<1>10. CASE AccessFails(c)
  <2>1. UNCHANGED <<req, word, buf, hw, mem>> /\ stage'[c] = "done"
    BY <1>10 DEF AccessFails
  <2>2. InFlight(c) => InFlight(c)'
    BY <2>1 DEF InFlight, OperationFlag, ToWrite
  <2> QED
    BY <2>1, <2>2 DEF Sole, InLoop, Agrees
<1>11. ~WaitExhausted(c)
  BY DEF WaitExhausted
<1> QED
  BY <1>1, <1>2, <1>3, <1>4, <1>5, <1>6, <1>7, <1>8, <1>9, <1>10, <1>11, <1>12 DEF Body

\* What is true of a client that has the registers to itself stays true as
\* long as it does, whoever takes the step.
LEMMA SoleStep ==
  ASSUME GwInv, GwNext, NEW c \in alone' \ gaveUp'
  PROVE  Sole(c)'
<1>1. /\ c \in Clients /\ c \in Holders' /\ Holders' = {c}
      /\ IF c \in Holders THEN c \in alone ELSE ~hw.busy
  BY DEF GwNext, StillAlone, Holders
<1>2. /\ TypeOK /\ Bookkeeping /\ Shapes /\ DeviceTyped /\ AloneHolds /\ Local(c)
      /\ \A d \in Clients : Local(d)
      /\ c \in alone \ gaveUp => Sole(c)
  BY <1>1 DEF GwInv, IInv, Facts
<1>3. ASSUME NEW d \in Clients \ {c}, ClientStep(d) PROVE Sole(c)'
  <2>1. /\ pc'[c] = pc[c] /\ (c \in failed' <=> c \in failed) /\ (c \in gaveUp' <=> c \in gaveUp)
        /\ req'[c] = req[c] /\ stage'[c] = stage[c] /\ buf'[c] = buf[c] /\ word'[c] = word[c]
    BY <1>1, <1>2, <1>3, OthersKeep
  <2>2. c \in Holders
    BY <1>1, <2>1 DEF Holders, Holding
  <2>3. c \in alone \ gaveUp /\ Holders = {c}
    BY <1>1, <1>2, <2>1, <2>2 DEF AloneHolds
  <2>4. UNCHANGED <<hw, mem>>
    BY <1>3, <2>3, OnlyHoldersTouch
  <2>5. Sole(c)
    BY <1>2, <2>3
  <2> QED
    BY <2>1, <2>4, <2>5 DEF Sole, InFlight, Served, ToWrite, AnsweredFlag, OperationFlag, Agrees
<1>4. ASSUME ClientStep(c) PROVE Sole(c)'
  <2>1. CASE c \notin Holders
    <3>1. /\ UNCHANGED <<req, stage, word, hw, mem>>
          /\ stage[c] \in {"space", "dword"} /\ word[c] = 0 /\ ~hw.busy
      BY <1>1, <1>2, <1>4, <2>1, HoldBegins
    <3> QED
      BY <3>1 DEF Sole, InLoop
  <2>2. CASE c \in Holders
    <3>1. ~Finish(c)
      BY <1>1, <1>2 DEF Finish, Clear, ClearError, Return, Goto, TypeOK, Holders, Holding
    <3>2. pc[c] = "cs" \/ (pc[c] = "clear" /\ c \notin failed)
      BY <2>2 DEF Holders, Holding
    <3>3. ~Call(c) /\ ~LockStep(c) /\ ~LockTimeout(c) /\ ~LockError(c)
      BY <3>2 DEF Call, Start, Begin, LockStep, LockTimeout, LockError, NotLocked, PollTimeout, PollTaken, PollFree,
         ConfigError, Trying, ReadCounter, WriteTicket, ReadBack
    <3>4. Body(c) \/ AccessFails(c)
      BY <1>4, <3>1, <3>3 DEF ClientStep, ClientProgress
    <3>5. gaveUp \subseteq gaveUp'
      BY <3>4 DEF Body, AccessFails, SetSpace, CheckStatus, Refuse, WriteData, WriteAddress, FlagSeen,
         FlagNotSeen, WaitExhausted, ReadData, RunOff, ReadDword, BodyDone, bodyVars
    <3>6. Sole(c)
      BY <1>1, <1>2, <2>2, <3>5
    <3> QED
      BY <1>1, <1>2, <3>4, <3>6, SoleBody
  <2> QED
    BY <2>1, <2>2
<1>5. CASE DeviceAnswers
  <2>1. c \in Holders /\ gaveUp' = gaveUp
    BY <1>1, <1>5 DEF DeviceAnswers, vars, bodyVars, Holders, Holding
  <2> QED
    BY <1>1, <1>2, <1>5, <2>1, SoleDevice
<1> QED
  BY <1>3, <1>4, <1>5 DEF GwNext, ClientStep


----------------------------------------------------------------------------
(* The invariant *)

\* It holds initially.
LEMMA GwInitInv == GwInit => GwInv
<1> SUFFICES ASSUME GwInit PROVE GwInv
  OBVIOUS
<1>1. Init /\ IInv
  BY InitInv DEF GwInit
<1>2. Shapes /\ calls \in 0..MaxCalls
  BY DEF GwInit, Shapes
<1>3. 0 \in Addrs
  BY DEF Addrs
<1>4. DeviceTyped
  BY <1>3 DEF GwInit, DeviceTyped
<1>5. AloneHolds /\ alone = {}
  BY DEF GwInit, AloneHolds
<1>6. ASSUME NEW c \in Clients PROVE Local(c)
  <2>1. /\ req[c] = NoRequest /\ stage[c] = "none" /\ word[c] = 0 /\ polls[c] = 0
        /\ buf[c] = <<>> /\ err[c] = 0 /\ pc[c] = "idle" /\ c \notin failed /\ c \notin smashed
    BY <1>1 DEF GwInit, Init
  <2>2. Typed(c)
    BY <2>1, Nothing DEF Typed, Stages, Commands
  <2>3. Place(c)
    BY <2>1 DEF Place, Trying, InLoop
  <2> QED
    BY <2>2, <2>3 DEF Local
<1> QED
  BY <1>1, <1>2, <1>4, <1>5, <1>6 DEF GwInv

\* Every step keeps it.
LEMMA GwStepInv == GwInv /\ [GwNext]_gwVars => GwInv'
<1> SUFFICES ASSUME GwInv, [GwNext]_gwVars PROVE GwInv'
  OBVIOUS
<1>1. IInv /\ TypeOK /\ Bookkeeping /\ Shapes /\ DeviceTyped /\ AloneHolds
      /\ calls \in 0..MaxCalls /\ \A c \in Clients : Local(c)
  BY DEF GwInv, IInv, Facts
<1>2. IInv'
  BY <1>1, GatewayStep, StepInv
<1>3. Shapes' /\ DeviceTyped'
  BY <1>1, ShapesStep, DeviceStep
<1>4. CASE GwNext
  <2>1. /\ \A d \in Clients : Local(d)'
        /\ calls' \in 0..MaxCalls /\ gaveUp' \subseteq Clients /\ smashed' \subseteq Clients
    <3>1. ASSUME NEW c \in Clients, ClientStep(c)
          PROVE  /\ \A d \in Clients : Local(d)'
                 /\ calls' \in 0..MaxCalls /\ gaveUp' \subseteq Clients /\ smashed' \subseteq Clients
      <4>1. \A d \in Clients : Local(d)'
        BY <1>1, <3>1, LocalStep
      <4>2. CASE Call(c)
        BY <4>1, <4>2, <1>1 DEF Call, Start, AloneHolds
      <4>3. CASE ~Call(c)
        BY <3>1, <4>1, <4>3, <1>1 DEF ClientStep, ClientProgress, LockStep, LockTimeout, LockError, NotLocked, AccessFails,
           Finish, Body, SetSpace, CheckStatus, Refuse, WriteData, WriteAddress, FlagSeen,
           FlagNotSeen, WaitExhausted, ReadData, RunOff, ReadDword, BodyDone, bodyVars, AloneHolds
      <4> QED
        BY <4>2, <4>3
    <3>2. CASE DeviceAnswers
      BY <1>1, <3>2 DEF DeviceAnswers, vars, bodyVars, Local, Typed, Place, Trying, AloneHolds
    <3> QED
      BY <1>4, <3>1, <3>2 DEF GwNext, ClientStep
  <2>4. \A c \in alone' : Holders' = {c}
    BY <1>4 DEF GwNext, StillAlone
  <2>5. \A c \in alone' \ gaveUp' : Sole(c)'
    BY <1>4, SoleStep
  <2> QED
    BY <1>2, <1>3, <2>1, <2>4, <2>5 DEF GwInv, AloneHolds
<1>5. CASE UNCHANGED gwVars
  BY <1>5, <1>2, <1>3 DEF GwInv, gwVars, vars, bodyVars, AloneHolds, Holders, Holding, Local, Typed,
     Place, Trying, Sole, InFlight, Served, ToWrite, AnsweredFlag, OperationFlag, Agrees
<1> QED
  BY <1>4, <1>5

\* The inductive invariant is one: whoever calls, whatever the device does
\* and whichever access fails.
THEOREM GatewayInvariance == GwSpec => []GwInv
BY GwInitInv, GwStepInv, PTL DEF GwSpec

\* The registers, counts and errors of read_pciconf, write_pciconf and their
\* handlers have their types: the count stays within the size asked for, the
\* operation's buffer keeps its length whatever that is, and the registers
\* get no address or value that is none.
THEOREM GatewayTypes == GwSpec => []GwTypeOK
<1>1. GwInv => GwTypeOK
  <2> SUFFICES ASSUME GwInv PROVE GwTypeOK
    OBVIOUS
  <2>1. /\ Shapes /\ DeviceTyped /\ AloneHolds /\ calls \in 0..MaxCalls
        /\ \A c \in Clients : Typed(c) /\ Place(c)
    BY DEF GwInv, Local
  <2>2. /\ req \in [Clients -> AnyRequest \cup {NoRequest}]
        /\ stage \in [Clients -> Stages] /\ polls \in [Clients -> 0..MaxPolls]
    BY <2>1 DEF Shapes, Typed
  <2>3. ASSUME NEW c \in Clients
        PROVE  /\ word[c] \in 0..Count(req[c])
               /\ stage[c] \in {"data", "addr", "fetch"} => word[c] < Count(req[c])
               /\ buf[c] \in [DOMAIN req[c].data -> Values]
               /\ err[c] \in {EINVAL, 4 * word[c], 0} \cup PciErrors
    <3>1. DOMAIN req[c].data = 1..Len(req[c].data)
      BY <2>1, Request, Nothing DEF Typed
    <3> QED
      BY <2>1, <3>1 DEF Typed, Place, InLoop
  <2>4. alone \subseteq Holders
    BY <2>1 DEF AloneHolds
  <2> QED
    BY <2>1, <2>2, <2>3, <2>4 DEF GwTypeOK, DeviceTyped, AloneHolds
<1> QED
  BY <1>1, GatewayInvariance, PTL

\* The loops of read_pciconf and write_pciconf leave data[] for no reason but
\* a size that data[] is too short for, which nothing checks.
THEOREM OverrunsAreAsked == GwSpec => []OnlySizeOverruns
<1>1. GwInv => OnlySizeOverruns
  <2> SUFFICES ASSUME GwInv, NEW c \in Clients,
                      c \in smashed \/ (stage[c] \in {"data", "fetch"} /\ Past(c))
               PROVE  ~Fits(req[c])
    BY DEF OnlySizeOverruns
  <2>1. Typed(c) /\ Place(c)
    BY DEF GwInv, Local
  <2>2. CASE c \in smashed
    BY <2>1, <2>2 DEF Place
  <2>3. CASE stage[c] \in {"data", "fetch"} /\ Past(c)
    <3>1. word[c] < Count(req[c]) /\ word[c] >= Len(req[c].data)
      BY <2>1, <2>3 DEF Place, InLoop, Past, BehindData
    <3>2. Count(req[c]) \in Nat /\ Len(req[c].data) \in Nat /\ word[c] \in Nat
      BY <2>1, Request, Nothing DEF Typed
    <3> QED
      BY <3>1, <3>2 DEF Fits
  <2> QED
    BY <2>2, <2>3
<1> QED
  BY <1>1, GatewayInvariance, PTL

\* What read_pciconf and write_pciconf count as transferred is in place, for
\* a transaction that had the gateway to itself and got its answers in time.
THEOREM TransfersAreIntact == GwSpec => []TransferredIntact
<1>1. GwInv => TransferredIntact
  BY DEF GwInv, TransferredIntact, Sole, Agrees
<1> QED
  BY <1>1, GatewayInvariance, PTL

\* A positive result of read_pciconf or write_pciconf is the count of the
\* bytes transferred, fewer than asked for, or a PCIBIOS_* code of a config
\* access that failed before the first dword.
THEOREM ErrorsCount == GwSpec => []ErrorCountsTransferred
<1>1. GwInv => ErrorCountsTransferred
  <2> SUFFICES ASSUME GwInv, NEW c \in Clients, pc[c] = "clear", Result(c) > 0
               PROVE  \/ Result(c) = 4 * word[c] /\ word[c] < Count(req[c])
                      \/ Result(c) \in PciErrors /\ word[c] = 0
    BY DEF ErrorCountsTransferred
  <2>1. Place(c)
    BY DEF GwInv, Local
  <2>2. Result(c) = err[c] /\ err[c] # 0 /\ err[c] # EINVAL
    BY DEF Result, EINVAL
  <2> QED
    BY <2>1, <2>2 DEF Place
<1> QED
  BY <1>1, GatewayInvariance, PTL

\* Only the device stores anything.
LEMMA ClientsStoreNothing ==
  ASSUME NEW c \in Clients, ClientStep(c)
  PROVE  UNCHANGED mem
BY DEF ClientStep, ClientProgress, Call, Start, LockStep, LockTimeout, LockError, NotLocked, AccessFails, Finish, Body,
   SetSpace, CheckStatus, Refuse, WriteData, WriteAddress, FlagSeen, FlagNotSeen, WaitExhausted,
   ReadData, RunOff, ReadDword, BodyDone

\* Nothing but the dword being written is stored in the device while a
\* transaction has the gateway to itself and its answers come in time.
THEOREM OnlyAskedStored == GwSpec => OnlyAskedIsStored
<1> DEFINE Asked ==
      \A s \in Spaces, a \in Addrs : \A c \in alone \ gaveUp : mem'[s][a] # mem[s][a] =>
        /\ req[c].cmd \in Writes /\ s = req[c].space
        /\ a = req[c].addr + word[c]
        /\ word[c] < Len(req[c].data) => mem'[s][a] = req[c].data[word[c] + 1]
<1>1. GwInv /\ [GwNext]_gwVars => [Asked]_gwVars
  <2> SUFFICES ASSUME GwInv, GwNext, NEW s \in Spaces, NEW a \in Addrs, NEW c \in alone \ gaveUp,
                      mem'[s][a] # mem[s][a]
               PROVE  /\ req[c].cmd \in Writes /\ s = req[c].space
                      /\ a = req[c].addr + word[c]
                      /\ word[c] < Len(req[c].data) => mem'[s][a] = req[c].data[word[c] + 1]
    OBVIOUS
  <2>1. DeviceAnswers
    BY ClientsStoreNothing DEF GwNext, ClientStep
  <2>2. /\ hw.busy /\ hw.flag = 1 /\ mem' = [mem EXCEPT ![hw.space][hw.addr] = hw.data]
    BY <2>1 DEF DeviceAnswers
  <2>3. DeviceTyped /\ InFlight(c)
    BY <2>2 DEF GwInv, Sole
  <2>4. s = hw.space /\ a = hw.addr /\ mem'[s][a] = hw.data
    BY <2>2, <2>3 DEF DeviceTyped
  <2>5. req[c].cmd \in Writes
    BY <2>2, <2>3 DEF InFlight, OperationFlag
  <2> QED
    BY <2>3, <2>4, <2>5 DEF InFlight, ToWrite
<1> QED
  BY <1>1, GatewayInvariance, PTL DEF GwSpec, OnlyAskedIsStored

----------------------------------------------------------------------------
(* A body ends *)

\* A dword less takes MaxPolls + 9 steps less.
LEMMA DwordLess ==
  ASSUME NEW n \in Nat, NEW w \in 0..n
  PROVE  /\ (n - w) * (MaxPolls + 9) \in Nat
         /\ w < n => (n - (w + 1)) * (MaxPolls + 9) = (n - w) * (MaxPolls + 9) - (MaxPolls + 9)
<1>1. ASSUME NEW k \in Nat, NEW m \in Nat PROVE k * m \in Nat
  OBVIOUS
<1>2. ASSUME NEW k \in Int, NEW m \in Int PROVE (k - 1) * m = k * m - m
  OBVIOUS
<1>3. n - w \in Nat /\ MaxPolls + 9 \in Nat /\ n - (w + 1) = (n - w) - 1
  OBVIOUS
<1>4. (n - w) * (MaxPolls + 9) \in Nat
  BY <1>1, <1>3
<1>5. ((n - w) - 1) * (MaxPolls + 9) = (n - w) * (MaxPolls + 9) - (MaxPolls + 9)
  BY <1>2, <1>3
<1> QED
  BY <1>3, <1>4, <1>5

\* The steps of a body take it forward.
LEMMA Descent ==
  ASSUME TypeOK, Shapes, NEW c \in Clients, Local(c), Body(c), pc[c] = "cs", pc'[c] = "cs"
  PROVE  StepsLeft(c)' \in 0..(StepsLeft(c) - 1)
<1> DEFINE n == Count(req[c])
           w == word[c]
           dwords == (n - w) * (MaxPolls + 9)
<1>1. /\ req[c] \in AnyRequest /\ n \in Nat /\ w \in 0..n /\ polls[c] \in 0..MaxPolls
      /\ MaxPolls \in Nat
  BY Request DEF Local, Typed, Place
<1>2. dwords \in Nat
  BY <1>1, DwordLess
<1>3. req'[c] = req[c]
  BY DEF Body, SetSpace, CheckStatus, Refuse, WriteData, WriteAddress, FlagSeen, FlagNotSeen,
     WaitExhausted, ReadData, RunOff, ReadDword, BodyDone, bodyVars
<1>4. ASSUME word'[c] = w, StagesLeft(c) \in Int, StagesLeft(c)' \in 0..(StagesLeft(c) - 1)
      PROVE  StepsLeft(c)' \in 0..(StepsLeft(c) - 1)
  <2>1. StepsLeft(c) = dwords + StagesLeft(c) /\ StepsLeft(c)' = dwords + StagesLeft(c)'
    BY <1>3, <1>4 DEF StepsLeft
  <2> HIDE DEF dwords
  <2> QED
    BY <1>2, <1>4, <2>1
<1>5. ASSUME w < n, word'[c] = w + 1, StagesLeft(c) \in Nat, StagesLeft(c)' \in 0..(MaxPolls + 5)
      PROVE  StepsLeft(c)' \in 0..(StepsLeft(c) - 1)
  <2> DEFINE after == (n - (w + 1)) * (MaxPolls + 9)
  <2>1. StepsLeft(c) = dwords + StagesLeft(c) /\ StepsLeft(c)' = after + StagesLeft(c)'
    BY <1>3, <1>5 DEF StepsLeft
  <2>2. after = dwords - (MaxPolls + 9)
    BY <1>1, <1>5, DwordLess
  <2>3. w + 1 \in 0..n
    BY <1>1, <1>5
  <2>4. after \in Nat
    BY <1>1, <2>3, DwordLess
  <2> HIDE DEF dwords, after
  <2> QED
    BY <1>1, <1>2, <1>5, <2>1, <2>2, <2>4
<1> HIDE DEF dwords
<1> USE DEF Shapes, Go, At
<1>6. ASSUME NEW k \in 0..n, stage'[c] = LoopAfter(req[c], k)
      PROVE  StagesLeft(c)' \in 0..(MaxPolls + 5)
  <2>1. stage'[c] \in {"done", "bad", "data", "addr"}
    BY <1>1, <1>6, LoopGoesOn
  <2> QED
    BY <1>1, <2>1 DEF StagesLeft
<1>7. CASE SetSpace(c) \/ Refuse(c) \/ WriteData(c)
  <2>1. word'[c] = w
    BY <1>7 DEF SetSpace, Refuse, WriteData
  <2>2. \/ stage[c] = "space" /\ stage'[c] = "status"
        \/ stage[c] = "bad" /\ stage'[c] = "done"
        \/ stage[c] = "data" /\ stage'[c] = "addr"
    BY <1>7 DEF SetSpace, Refuse, WriteData
  <2>3. /\ stage[c] = "space" => StagesLeft(c) = MaxPolls + 8
        /\ stage'[c] = "status" => StagesLeft(c)' = MaxPolls + 7
        /\ stage[c] = "bad" => StagesLeft(c) = 1
        /\ stage'[c] = "done" => StagesLeft(c)' = 0
        /\ stage[c] = "data" => StagesLeft(c) = MaxPolls + 5
        /\ stage'[c] = "addr" => StagesLeft(c)' = MaxPolls + 4
    BY DEF StagesLeft
  <2>4. StagesLeft(c) \in Int /\ StagesLeft(c)' \in 0..(StagesLeft(c) - 1)
    BY <1>1, <2>2, <2>3
  <2> QED
    BY <1>4, <2>1, <2>4
<1>8. CASE CheckStatus(c)
  <2>1. /\ stage[c] = "status" /\ word'[c] = w /\ 0 \in 0..n
        /\ stage'[c] = LoopAfter(req[c], 0) \/ stage'[c] = "done"
    BY <1>1, <1>8 DEF CheckStatus
  <2>2. StagesLeft(c) = MaxPolls + 7
    BY <2>1 DEF StagesLeft
  <2>3. StagesLeft(c)' \in 0..(MaxPolls + 5)
    BY <1>1, <1>6, <2>1 DEF StagesLeft
  <2> QED
    BY <1>1, <1>4, <2>1, <2>2, <2>3
<1>9. CASE WriteAddress(c) \/ FlagNotSeen(c)
  <2>1. /\ word'[c] = w /\ stage'[c] = "wait"
        /\ \/ stage[c] = "addr" /\ polls'[c] = 0
           \/ stage[c] = "wait" /\ polls[c] < MaxPolls /\ polls'[c] = polls[c] + 1
    BY <1>9 DEF WriteAddress, FlagNotSeen
  <2>2. /\ StagesLeft(c)' = MaxPolls - polls'[c] + 3
        /\ stage[c] = "addr" => StagesLeft(c) = MaxPolls + 4
        /\ stage[c] = "wait" => StagesLeft(c) = MaxPolls - polls[c] + 3
    BY <2>1 DEF StagesLeft
  <2>3. StagesLeft(c) \in Int /\ StagesLeft(c)' \in 0..(StagesLeft(c) - 1)
    BY <1>1, <2>1, <2>2
  <2> QED
    BY <1>4, <2>1, <2>3
<1>10. CASE FlagSeen(c) \/ WaitExhausted(c)
  <2>1. /\ stage[c] = "wait" /\ polls'[c] = polls[c] /\ w < n
        /\ \/ word'[c] = w /\ stage'[c] = "fetch"
           \/ word'[c] = w + 1 /\ stage'[c] = LoopAfter(req[c], w + 1)
    BY <1>10 DEF FlagSeen, WaitExhausted, AfterWait, Local, Place, InLoop
  <2>2. StagesLeft(c) = MaxPolls - polls[c] + 3
    BY <2>1 DEF StagesLeft
  <2>3. CASE word'[c] = w /\ stage'[c] = "fetch"
    <3>1. StagesLeft(c)' = 2
      BY <2>3 DEF StagesLeft
    <3> QED
      BY <1>1, <1>4, <2>2, <2>3, <3>1
  <2>4. CASE word'[c] = w + 1 /\ stage'[c] = LoopAfter(req[c], w + 1)
    <3>1. StagesLeft(c)' \in 0..(MaxPolls + 5)
      BY <1>1, <1>6, <2>1, <2>4
    <3> QED
      BY <1>1, <1>5, <2>1, <2>2, <2>4, <3>1
  <2> QED
    BY <2>1, <2>3, <2>4
<1>11. CASE ReadData(c)
  <2>1. /\ stage[c] = "fetch" /\ w < n /\ word'[c] = w + 1 /\ stage'[c] = LoopAfter(req[c], w + 1)
    BY <1>11 DEF ReadData, Local, Place, InLoop
  <2>2. StagesLeft(c) = 2
    BY <2>1 DEF StagesLeft
  <2>3. StagesLeft(c)' \in 0..(MaxPolls + 5)
    BY <1>1, <1>6, <2>1
  <2> QED
    BY <1>5, <2>1, <2>2, <2>3
<1>12. CASE ReadDword(c)
  <2>1. stage[c] = "dword" /\ w = 0 /\ n = 1 /\ word'[c] = 1 /\ stage'[c] = "done"
    BY <1>12 DEF ReadDword, Local, Typed, Place
  <2>2. StagesLeft(c) = 1 /\ StagesLeft(c)' = 0
    BY <2>1 DEF StagesLeft
  <2>3. w < n /\ word'[c] = w + 1
    <3> HIDE DEF w, n
    <3> QED
      BY <2>1
  <2>4. StagesLeft(c) \in Nat /\ StagesLeft(c)' \in 0..(MaxPolls + 5)
    BY <1>1, <2>2
  <2> QED
    BY <1>5, <2>3, <2>4
<1>13. ~BodyDone(c)
  BY DEF BodyDone, Leave, Goto, TypeOK
<1>14. CASE RunOff(c)
  <2>1. stage[c] \in {"data", "fetch"} /\ word'[c] = w /\ stage'[c] = "dead"
    BY <1>14 DEF RunOff
  <2>2. StagesLeft(c) \in {MaxPolls + 5, 2} /\ StagesLeft(c)' = 0
    BY <2>1 DEF StagesLeft
  <2> QED
    BY <1>1, <1>4, <2>1, <2>2
<1> QED
  BY <1>7, <1>8, <1>9, <1>10, <1>11, <1>12, <1>13, <1>14 DEF Body

\* A body ends within a bounded number of its own steps, even if the device
\* never answers and whatever others do to the registers.
THEOREM Descends == GwSpec => BodyDescends
<1> DEFINE Down ==
      \A c \in Clients : pc[c] = "cs" /\ pc'[c] = "cs" =>
        \/ UNCHANGED <<word[c], stage[c], polls[c]>>
        \/ StepsLeft(c)' \in 0..(StepsLeft(c) - 1)
<1>1. GwInv /\ [GwNext]_gwVars => [Down]_gwVars
  <2> SUFFICES ASSUME GwInv, GwNext, NEW c \in Clients, pc[c] = "cs", pc'[c] = "cs"
               PROVE  \/ UNCHANGED <<word[c], stage[c], polls[c]>>
                      \/ StepsLeft(c)' \in 0..(StepsLeft(c) - 1)
    OBVIOUS
  <2>1. TypeOK /\ Shapes /\ Local(c)
    BY DEF GwInv, IInv
  <2>2. CASE DeviceAnswers
    BY <2>2 DEF DeviceAnswers, bodyVars
  <2>3. ASSUME NEW d \in Clients, ClientStep(d), d # c PROVE UNCHANGED <<word[c], stage[c], polls[c]>>
    BY <2>1, <2>3, OthersKeep
  <2>4. ASSUME ClientStep(c) PROVE StepsLeft(c)' \in 0..(StepsLeft(c) - 1)
    <3>1. ~Call(c) /\ ~LockStep(c) /\ ~LockTimeout(c) /\ ~LockError(c) /\ ~Finish(c)
      BY DEF Call, Start, Begin, LockStep, LockTimeout, LockError, NotLocked, PollTimeout, PollTaken, PollFree, ConfigError,
         Trying, ReadCounter, WriteTicket, ReadBack, Finish, Clear, ClearError
    <3>2. ~AccessFails(c)
      BY <2>1 DEF AccessFails, BodyError, Goto, TypeOK
    <3> QED
      BY <2>1, <2>4, <3>1, <3>2, Descent DEF ClientStep, ClientProgress
  <2> QED
    BY <2>2, <2>3, <2>4 DEF GwNext, ClientStep
<1> QED
  BY <1>1, GatewayInvariance, PTL DEF GwSpec, BodyDescends

----------------------------------------------------------------------------
(* The memory that is promised *)

\* What is promised to the one that can rely on it, if there is one.
Promised == IF Reliant = {} THEN [kind |-> "none"] ELSE Transfer(CHOOSE c \in Reliant : TRUE)

LEMMA PromisedIs ==
  /\ Memory!vars = <<mem, Promised>>
  /\ \A c : Reliant = {c} => Promised = Transfer(c)
  /\ Reliant = {} => Promised = Memory!NoTransfer
BY DEF Memory!vars, Promised, Memory!NoTransfer

\* It is the only holder.
LEMMA KeptIsOne ==
  ASSUME GwInv
  PROVE  Reliant = {} \/ \E c \in Clients : Reliant = {c} /\ Holders = {c} /\ Sole(c) /\ Local(c)
<1> SUFFICES ASSUME NEW c \in Reliant
             PROVE  c \in Clients /\ Reliant = {c} /\ Holders = {c} /\ Sole(c) /\ Local(c)
  OBVIOUS
<1>1. AloneHolds /\ c \in alone /\ Sole(c)
  BY DEF GwInv, Reliant
<1>2. Holders = {c}
  BY <1>1 DEF AloneHolds
<1>3. \A d \in Reliant : Holders = {d}
  BY <1>1 DEF AloneHolds, Reliant
<1>4. c \in Clients /\ Local(c)
  BY <1>2 DEF Holders, GwInv
<1> QED
  BY <1>1, <1>2, <1>3, <1>4

\* A function on places is a sequence of dwords.
LEMMA Placed ==
  ASSUME NEW k \in Nat, NEW b \in [1..k -> Values]
  PROVE  b \in Seq(Values)
OBVIOUS

\* What a holder runs is a transaction of the memory, ...
LEMMA TransferTyped ==
  ASSUME NEW r \in AnyRequest, NEW n \in 0..Len(r.data), NEW b \in [1..Len(r.data) -> Values]
  PROVE  TransferOf(r, n, b) \in Memory!Transfers
<1>1. /\ r.space \in Spaces /\ r.addr \in Nat /\ r.data \in Seq(Values)
      /\ Len(r.data) \in Nat /\ n \in Nat
  BY Request
<1>2. b \in Seq(Values)
  BY <1>1, Placed
<1> QED
  BY <1>1, <1>2 DEF TransferOf, Memory!Transfers

\* ... of which a step changes the count and the buffer.
LEMMA TransferCounted ==
  ASSUME NEW r, NEW n, NEW b, NEW m
  PROVE  /\ TransferOf(r, n, b).word = n
         /\ Memory!Counted(TransferOf(r, n, b), m) = TransferOf(r, m, b)
<1>1. TransferOf(r, n, b).word = n
  BY DEF TransferOf
<1>2. Memory!Counted(TransferOf(r, n, b), m) = TransferOf(r, m, b)
  BY DEF TransferOf, Memory!Counted
<1> QED
  BY <1>1, <1>2

LEMMA TransferFilled ==
  ASSUME NEW r, NEW n, NEW b, NEW b2
  PROVE  Memory!Filled(TransferOf(r, n, b), b2) = TransferOf(r, n, b2)
BY DEF TransferOf, Memory!Filled

\* A client that holds goes on with its body, or leaves.
LEMMA HolderSteps ==
  ASSUME TypeOK, NEW c \in Clients, c \in Holders, c \in Holders', ClientStep(c)
  PROVE  Body(c) \/ AccessFails(c)
<1>1. ~Finish(c)
  BY DEF Finish, Clear, ClearError, Return, Goto, TypeOK, Holders, Holding
<1>2. pc[c] = "cs" \/ (pc[c] = "clear" /\ c \notin failed)
  BY DEF Holders, Holding
<1>3. ~Call(c) /\ ~LockStep(c) /\ ~LockTimeout(c) /\ ~LockError(c)
  BY <1>2 DEF Call, Start, Begin, LockStep, LockTimeout, LockError, NotLocked, PollTimeout, PollTaken, PollFree,
     ConfigError, Trying, ReadCounter, WriteTicket, ReadBack
<1> QED
  BY <1>1, <1>3 DEF ClientStep, ClientProgress

\* The promise begins with the lock.
LEMMA KeptBegins ==
  ASSUME GwInv, GwNext, NEW c \in Clients, c \in Reliant', c \notin Reliant
  PROVE  Reliant = {} /\ UNCHANGED mem /\ word'[c] = 0
<1>1. /\ c \in Holders' /\ Holders' = {c} /\ c \notin gaveUp'
      /\ c \in Holders => c \in alone
  BY DEF Reliant, GwNext, StillAlone
<1>2. TypeOK /\ Bookkeeping /\ Shapes /\ AloneHolds /\ \A d \in Clients : Local(d)
  BY DEF GwInv, IInv, Facts
<1>3. c \notin Holders
  <2> SUFFICES ASSUME c \in Holders PROVE FALSE
    OBVIOUS
  <2>0. ~((c \in gaveUp => c \in gaveUp') /\ req'[c] = req[c])
    <3>1. Fits(req'[c])
      BY DEF Reliant
    <3> QED
      BY <1>1, <3>1 DEF Reliant
  <2>1. ASSUME NEW d \in Clients \ {c}, ClientStep(d) PROVE FALSE
    BY <1>2, <2>0, <2>1, OthersKeep
  <2>2. ASSUME ClientStep(c) PROVE FALSE
    <3>1. Body(c) \/ AccessFails(c)
      BY <1>1, <1>2, <2>2, HolderSteps
    <3> QED
      BY <2>0, <3>1 DEF Body, AccessFails, SetSpace, CheckStatus, Refuse, WriteData, WriteAddress,
         FlagSeen, FlagNotSeen, WaitExhausted, ReadData, RunOff, ReadDword, BodyDone, bodyVars
  <2>3. ~DeviceAnswers
    BY <2>0 DEF DeviceAnswers, bodyVars
  <2> QED
    BY <2>1, <2>2, <2>3 DEF GwNext, ClientStep
<1>4. ClientStep(c)
  <2>1. ASSUME NEW d \in Clients \ {c}, ClientStep(d) PROVE FALSE
    BY <1>1, <1>2, <1>3, <2>1, OthersKeep DEF Holders, Holding
  <2>2. ~DeviceAnswers
    BY <1>1, <1>3 DEF DeviceAnswers, vars, Holders, Holding
  <2> QED
    BY <2>1, <2>2 DEF GwNext, ClientStep
<1>5. UNCHANGED <<word, mem>> /\ word[c] = 0
  BY <1>1, <1>2, <1>3, <1>4, HoldBegins
<1>6. \A d \in Reliant : d = c
  <2> SUFFICES ASSUME NEW d \in Reliant, d # c PROVE FALSE
    OBVIOUS
  <2>1. d \in Clients /\ d \in Holders
    BY KeptIsOne
  <2>2. pc'[d] = pc[d] /\ (d \in failed' <=> d \in failed)
    BY <1>2, <1>4, <2>1, OthersKeep
  <2>3. d \in Holders'
    BY <2>1, <2>2 DEF Holders, Holding
  <2> QED
    BY <1>1, <2>3
<1> QED
  BY <1>5, <1>6

\* A dword of a transaction that fits has its place in data[].
LEMMA WordFits ==
  ASSUME NEW c \in Clients, Local(c), Fits(req[c])
  PROVE  /\ word[c] \in 0..Len(req[c].data)
         /\ word[c] < Count(req[c]) => word[c] < Len(req[c].data)
<1>1. word[c] \in 0..Count(req[c]) /\ Count(req[c]) \in Nat /\ Len(req[c].data) \in Nat
  BY Request, Nothing DEF Local, Typed
<1> QED
  BY <1>1 DEF Fits

\* Its device does what was asked of the memory, ...
LEMMA MemoryStores ==
  ASSUME GwInv, NEW c \in Clients, Local(c), Sole(c), Fits(req[c]), DeviceAnswers
  PROVE  /\ Transfer(c)' = Transfer(c)
         /\ \/ UNCHANGED mem
            \/ /\ Transfer(c).kind = "write"
               /\ word[c] < Len(req[c].data) /\ req[c].addr + word[c] \in Addrs
               /\ mem' = [mem EXCEPT ![req[c].space][req[c].addr + word[c]] =
                                       req[c].data[word[c] + 1]]
<1>1. hw.busy /\ UNCHANGED <<req, word, buf>>
  BY DEF DeviceAnswers, bodyVars
<1>2. InFlight(c) /\ DeviceTyped
  BY <1>1 DEF Sole, GwInv
<1>3. CASE hw.flag = 0
  BY <1>1, <1>3 DEF DeviceAnswers, Transfer
<1>4. CASE hw.flag = 1
  <2>1. req[c].cmd \in Writes /\ req[c].cmd # "READ_DWORD"
    BY <1>2, <1>4 DEF InFlight, OperationFlag
  <2>2. mem' = [mem EXCEPT ![hw.space][hw.addr] = hw.data]
    BY <1>4 DEF DeviceAnswers
  <2>3. /\ hw.space = req[c].space /\ hw.addr = req[c].addr + word[c]
        /\ hw.data = req[c].data[word[c] + 1] /\ word[c] < Len(req[c].data)
    <3>1. word[c] < Len(req[c].data)
      BY <1>2, WordFits DEF InFlight
    <3> QED
      BY <1>2, <2>1, <3>1 DEF InFlight, ToWrite
  <2>4. hw.addr \in Addrs
    BY <1>2 DEF DeviceTyped
  <2> QED
    BY <1>1, <2>1, <2>2, <2>3, <2>4 DEF Transfer, TransferOf
<1> QED
  BY <1>3, <1>4 DEF DeviceAnswers

\* What the steps of the memory do to the transaction, and what they ask for.
AtDword(c, kind) ==
  /\ Transfer(c).kind = kind /\ word[c] < Len(req[c].data)
  /\ req[c].addr + word[c] \in Addrs

HeldFor(c) == mem[req[c].space][req[c].addr + word[c]]

Reads(c) ==
  /\ AtDword(c, "read")
  /\ Transfer(c)' =
       Memory!Counted(Memory!Filled(Transfer(c), [buf[c] EXCEPT ![word[c] + 1] = HeldFor(c)]),
                      word[c] + 1)

Counts(c) ==
  /\ AtDword(c, "write") /\ HeldFor(c) = req[c].data[word[c] + 1]
  /\ Transfer(c)' = Memory!Counted(Transfer(c), word[c] + 1)

ReadsElsewhere(c) ==
  /\ Transfer(c).kind = "elsewhere" /\ word[c] = 0
  /\ \E v \in Values : Transfer(c)' = Memory!Counted(Memory!Filled(Transfer(c), <<v>>), 1)

\* ... and its body reads what the memory holds, and counts a dword to write
\* only once the memory holds it.
LEMMA MemoryTransfers ==
  ASSUME GwInv, NEW c \in Clients, Local(c), Sole(c), Fits(req[c]),
         Body(c) \/ AccessFails(c), c \notin gaveUp'
  PROVE  /\ UNCHANGED mem
         /\ \/ Transfer(c)' = Transfer(c)
            \/ Reads(c) \/ Counts(c) \/ ReadsElsewhere(c)
<1> USE DEF At, bodyVars
<1>1. Shapes /\ Place(c)
  BY DEF GwInv, Local
<1>2. UNCHANGED mem
  BY ClientsStoreNothing DEF ClientStep, ClientProgress
<1>8. ASSUME stage[c] \in InLoop
      PROVE  word[c] < Len(req[c].data) /\ req[c].cmd # "READ_DWORD"
  BY <1>1, <1>8, WordFits DEF Place, InLoop
<1>3. CASE SetSpace(c) \/ CheckStatus(c) \/ Refuse(c) \/ WriteData(c) \/ WriteAddress(c)
           \/ FlagNotSeen(c) \/ RunOff(c) \/ BodyDone(c) \/ AccessFails(c)
  <2>1. UNCHANGED <<req, word, buf>>
    BY <1>3 DEF SetSpace, CheckStatus, Refuse, WriteData, WriteAddress, FlagNotSeen, RunOff,
       BodyDone, AccessFails
  <2> QED
    BY <1>2, <2>1 DEF Transfer
<1>4. CASE FlagSeen(c)
  <2>1. /\ stage[c] = "wait" /\ UNCHANGED <<req, buf>> /\ ~hw.busy /\ Served(c)
    BY <1>4, FlagsDiffer DEF FlagSeen, Sole
  <2>2. CASE req[c].cmd \in Writes
    <3>1. word'[c] = word[c] + 1
      BY <1>1, <1>4, <2>2 DEF FlagSeen, AfterWait, Shapes
    <3>2. AtDword(c, "write") /\ HeldFor(c) = req[c].data[word[c] + 1]
      BY <1>1, <1>8, <2>1, <2>2
         DEF AtDword, HeldFor, Served, ToWrite, Transfer, TransferOf, Place, InLoop
    <3>3. Transfer(c)' = Memory!Counted(Transfer(c), word[c] + 1)
      <4>1. Transfer(c)' = TransferOf(req[c], word[c] + 1, buf[c])
        BY <2>1, <3>1 DEF Transfer
      <4> QED
        BY <4>1, TransferCounted DEF Transfer
    <3> QED
      BY <1>2, <3>2, <3>3 DEF Counts
  <2>3. CASE req[c].cmd \notin Writes
    <3>1. UNCHANGED word
      BY <1>4, <2>3 DEF FlagSeen, AfterWait
    <3> QED
      BY <1>2, <2>1, <3>1 DEF Transfer
  <2> QED
    BY <2>2, <2>3
<1>5. CASE ReadData(c)
  <2>1. stage[c] = "fetch" /\ Served(c) /\ req[c].cmd \notin Writes /\ UNCHANGED req
    BY <1>1, <1>5 DEF ReadData, Sole, Place
  <2>2. word'[c] = word[c] + 1 /\ buf'[c] = [buf[c] EXCEPT ![word[c] + 1] = hw.data]
    <3>1. ~Past(c)
      BY <1>8, <2>1, WordFits DEF Past, BehindData, InLoop
    <3> QED
      BY <1>1, <1>5, <3>1 DEF ReadData, Shapes
  <2>3. AtDword(c, "read") /\ HeldFor(c) = hw.data
    BY <1>1, <1>8, <2>1 DEF AtDword, HeldFor, Served, Transfer, TransferOf, Place, InLoop
  <2>4. Transfer(c)' =
          Memory!Counted(Memory!Filled(Transfer(c), [buf[c] EXCEPT ![word[c] + 1] = hw.data]),
                         word[c] + 1)
    <3>1. Transfer(c)' =
            TransferOf(req[c], word[c] + 1, [buf[c] EXCEPT ![word[c] + 1] = hw.data])
      BY <2>1, <2>2 DEF Transfer
    <3>2. Memory!Filled(Transfer(c), [buf[c] EXCEPT ![word[c] + 1] = hw.data]) =
            TransferOf(req[c], word[c], [buf[c] EXCEPT ![word[c] + 1] = hw.data])
      BY TransferFilled DEF Transfer
    <3> QED
      BY <3>1, <3>2, TransferCounted
  <2> QED
    BY <1>2, <2>3, <2>4 DEF Reads
<1>6. CASE ReadDword(c)
  <2>1. /\ stage[c] = "dword" /\ req[c].cmd = "READ_DWORD" /\ word[c] = 0 /\ UNCHANGED req
    BY <1>1, <1>6 DEF ReadDword, Place
  <2>2. word'[c] = 1 /\ \E v \in Values : buf'[c] = <<v>>
    BY <1>1, <1>6 DEF ReadDword, Shapes
  <2>3. PICK v \in Values : buf'[c] = <<v>>
    BY <2>2
  <2>4. Transfer(c)' = Memory!Counted(Memory!Filled(Transfer(c), <<v>>), 1)
    <3>1. Transfer(c)' = TransferOf(req[c], 1, <<v>>)
      BY <2>1, <2>2, <2>3 DEF Transfer
    <3>2. Memory!Filled(Transfer(c), <<v>>) = TransferOf(req[c], word[c], <<v>>)
      BY TransferFilled DEF Transfer
    <3> QED
      BY <3>1, <3>2, TransferCounted
  <2> QED
    BY <1>2, <2>1, <2>4 DEF ReadsElsewhere, Transfer, TransferOf
<1>7. ~WaitExhausted(c)
  BY DEF WaitExhausted
<1> QED
  BY <1>3, <1>4, <1>5, <1>6, <1>7 DEF Body

\* Every step is one of the memory or leaves it alone.
LEMMA MemoryStep ==
  ASSUME GwInv, GwInv', GwNext
  PROVE  \/ Promised' = Promised /\ UNCHANGED mem
         \/ Promised = [kind |-> "none"] /\ Promised' \in Memory!Transfers /\ Promised'.word = 0
            /\ UNCHANGED mem
         \/ \E c \in Clients : Promised = Transfer(c) /\ Promised' = Transfer(c)' /\ UNCHANGED mem
              /\ (Reads(c) \/ Counts(c) \/ ReadsElsewhere(c))
         \/ \E c \in Clients : Promised = Transfer(c) /\ Promised' = Promised /\ AtDword(c, "write")
              /\ mem' = [mem EXCEPT ![req[c].space][req[c].addr + word[c]] = req[c].data[word[c] + 1]]
         \/ Promised' = [kind |-> "none"] /\ UNCHANGED mem
         \/ Promised = [kind |-> "none"] /\ Promised' = Promised
            /\ mem' \in [Spaces -> [Addrs -> Values]]
<1>1. TypeOK /\ Shapes /\ \A d \in Clients : Local(d)
  BY DEF GwInv, IInv
<1>0. \A c \in Reliant' : c \in Clients /\ Reliant' = {c} /\ c \in Holders'
  BY DEF Reliant, GwNext, StillAlone, Holders
<1>2. ASSUME NEW c, Reliant = {c} PROVE Promised = Transfer(c)
  BY <1>2 DEF Promised
<1>3. ASSUME NEW c, Reliant' = {c} PROVE Promised' = Transfer(c)'
  BY <1>3 DEF Promised
<1>4. Reliant = {} => Promised = [kind |-> "none"]
  BY DEF Promised
<1>5. Reliant' = {} => Promised' = [kind |-> "none"]
  BY DEF Promised
<1>6. CASE Reliant = {} /\ Reliant' = {}
  <2>1. mem' \in [Spaces -> [Addrs -> Values]]
    BY DEF GwInv, DeviceTyped
  <2> QED
    BY <1>4, <1>5, <1>6, <2>1
<1>7. CASE Reliant = {} /\ Reliant' # {}
  <2>1. PICK c \in Clients : c \in Reliant'
    BY <1>0, <1>7
  <2>2. UNCHANGED mem /\ word'[c] = 0
    BY <1>7, <2>1, KeptBegins
  <2>3. Reliant' = {c} /\ c \in Holders' /\ Local(c)'
    BY <1>0, <2>1 DEF GwInv
  <2>4. req'[c] \in AnyRequest /\ word'[c] \in 0..Len(req'[c].data)
        /\ buf'[c] \in [1..Len(req'[c].data) -> Values]
    <3>1. req'[c] \in AnyRequest /\ buf'[c] \in [1..Len(req'[c].data) -> Values]
      BY <2>3 DEF Local, Place, Typed, Holders, Holding
    <3> QED
      BY <2>2, <3>1, Request
  <2>5. Transfer(c)' \in Memory!Transfers /\ Transfer(c)'.word = 0
    <3>1. Transfer(c)' = TransferOf(req'[c], word'[c], buf'[c])
      BY DEF Transfer
    <3>2. Transfer(c)' \in Memory!Transfers
      BY <2>4, <3>1, TransferTyped
    <3> QED
      BY <2>2, <3>1, <3>2, TransferCounted
  <2> QED
    BY <1>3, <1>4, <1>7, <2>2, <2>3, <2>5
<1>8. CASE Reliant # {}
  <2>1. PICK c \in Clients : Reliant = {c} /\ Holders = {c} /\ Sole(c) /\ Local(c)
    BY <1>8, KeptIsOne
  <2>2. Promised = Transfer(c) /\ c \in alone \ gaveUp /\ Fits(req[c])
    BY <1>2, <2>1 DEF Reliant
  <2>3. CASE Reliant' = {c}
    <3>1. Promised' = Transfer(c)' /\ c \in Holders' /\ c \notin gaveUp'
      BY <1>3, <2>3 DEF Reliant, GwNext, StillAlone, Holders
    <3>2. CASE DeviceAnswers
      BY <2>1, <2>2, <3>1, <3>2, MemoryStores DEF AtDword
    <3>3. CASE ClientStep(c)
      <4>1. Body(c) \/ AccessFails(c)
        BY <1>1, <2>1, <3>1, <3>3, HolderSteps
      <4> QED
        BY <2>1, <2>2, <3>1, <4>1, MemoryTransfers
    <3>4. ASSUME NEW d \in Clients \ {c}, ClientStep(d)
          PROVE  Promised' = Promised /\ UNCHANGED mem
      <4>1. req'[c] = req[c] /\ buf'[c] = buf[c] /\ word'[c] = word[c]
        BY <1>1, <3>4, OthersKeep
      <4>2. UNCHANGED mem
        BY <3>4, ClientsStoreNothing
      <4> QED
        BY <2>2, <3>1, <4>1, <4>2 DEF Transfer
    <3> QED
      BY <3>2, <3>3, <3>4 DEF GwNext, ClientStep
  <2>4. CASE Reliant' # {c}
    <3>1. Reliant' = {}
      <4> SUFFICES ASSUME Reliant' # {} PROVE FALSE
        OBVIOUS
      <4>1. PICK d \in Clients : Reliant' = {d}
        BY <1>0
      <4>2. d # c /\ d \notin Reliant /\ d \in Reliant'
        BY <2>1, <2>4, <4>1
      <4> QED
        BY <2>1, <4>2, KeptBegins
    <3>2. ~DeviceAnswers
      BY <2>1, <2>2, <3>1 DEF DeviceAnswers, vars, bodyVars, Reliant, GwNext, StillAlone, Holders, Holding
    <3>3. UNCHANGED mem
      BY <3>2, ClientsStoreNothing DEF GwNext, ClientStep
    <3> QED
      BY <1>5, <3>1, <3>3
  <2> QED
    BY <2>3, <2>4
<1> QED
  BY <1>6, <1>7, <1>8

\* The steps of the promised transaction are steps of the memory.
LEMMA TransferFields ==
  ASSUME NEW c
  PROVE  /\ Transfer(c).space = req[c].space /\ Transfer(c).addr = req[c].addr
         /\ Transfer(c).data = req[c].data /\ Transfer(c).word = word[c]
         /\ Transfer(c).buf = buf[c]
BY DEF Transfer, TransferOf

LEMMA Transferring ==
  ASSUME NEW c \in Clients, Promised = Transfer(c), Promised' = Transfer(c)',
         UNCHANGED mem, Reads(c) \/ Counts(c) \/ ReadsElsewhere(c)
  PROVE  Memory!Next
<1>1. CASE Reads(c)
  <2>1. Memory!ReadDword
    BY <1>1, TransferFields
       DEF Reads, AtDword, HeldFor, Memory!ReadDword, Memory!Doing, Memory!Held, Promised, Reliant
  <2> QED
    BY <2>1 DEF Memory!Next
<1>2. CASE Counts(c)
  <2>1. Memory!CountDword
    BY <1>2, TransferFields
       DEF Counts, AtDword, HeldFor, Memory!CountDword, Memory!Doing, Memory!Held, Promised, Reliant
  <2> QED
    BY <2>1 DEF Memory!Next
<1>3. CASE ReadsElsewhere(c)
  <2>1. Memory!ReadElsewhere
    BY <1>3, TransferFields DEF ReadsElsewhere, Memory!ReadElsewhere, Promised, Reliant
  <2> QED
    BY <2>1 DEF Memory!Next
<1> QED
  BY <1>1, <1>2, <1>3

LEMMA Storing ==
  ASSUME NEW c \in Clients, Promised = Transfer(c), Promised' = Promised,
         AtDword(c, "write"),
         mem' = [mem EXCEPT ![req[c].space][req[c].addr + word[c]] = req[c].data[word[c] + 1]]
  PROVE  Memory!Next
<1>1. Promised.space = req[c].space /\ Promised.addr = req[c].addr /\ Promised.data = req[c].data
      /\ Promised.word = word[c] /\ Promised.kind = "write"
  BY TransferFields DEF AtDword
<1>2. mem' = [mem EXCEPT ![Promised.space][Promised.addr + Promised.word] =
                          Promised.data[Promised.word + 1]]
  BY <1>1
<1>3. Promised.word < Len(Promised.data) /\ Promised.addr + Promised.word \in Addrs
  BY <1>1 DEF AtDword
<1>4. Memory!StoreDword
  BY <1>1, <1>2, <1>3 DEF Memory!StoreDword, Memory!Doing, Promised, Reliant
<1> QED
  BY <1>4 DEF Memory!Next

\* Whatever the clients do, and whenever the device answers, a transaction
\* that has the gateway to itself and its answers in time is one of a plain
\* memory of dwords (module DwordMemory): for any number of clients, any
\* requests and any number of polls.
THEOREM GatewayIsMemory == GwSpec => RefinesDwordMemory
<1>1. GwInit => Memory!Init
  BY DEF GwInit, Memory!Init, Memory!NoTransfer, Reliant
<1>2. GwInv /\ GwInv' /\ [GwNext]_gwVars => [Memory!Next]_(Memory!vars)
  <2> SUFFICES ASSUME GwInv, GwInv', [GwNext]_gwVars PROVE [Memory!Next]_(Memory!vars)
    OBVIOUS
  <2>1. CASE UNCHANGED gwVars
    <3>1. UNCHANGED <<mem, Promised>>
      BY <2>1 DEF gwVars, bodyVars, Promised, Reliant, Transfer
    <3> QED
      BY <3>1 DEF Memory!vars, Promised, Reliant
  <2>2. CASE GwNext
    <3>1. CASE Promised' = Promised /\ UNCHANGED mem
      BY <3>1 DEF Memory!vars, Promised, Reliant
    <3>2. CASE /\ Promised = [kind |-> "none"] /\ Promised' \in Memory!Transfers
               /\ Promised'.word = 0 /\ UNCHANGED mem
      <4>1. Memory!Begin
        BY <3>2 DEF Memory!Begin, Memory!NoTransfer, Promised, Reliant
      <4> QED
        BY <4>1 DEF Memory!Next
    <3>3. ASSUME NEW c \in Clients, Promised = Transfer(c), Promised' = Transfer(c)',
                 UNCHANGED mem, Reads(c) \/ Counts(c) \/ ReadsElsewhere(c)
          PROVE  Memory!Next
      BY <3>3, Transferring
    <3>4. ASSUME NEW c \in Clients, Promised = Transfer(c), Promised' = Promised,
                 AtDword(c, "write"),
                 mem' = [mem EXCEPT ![req[c].space][req[c].addr + word[c]] = req[c].data[word[c] + 1]]
          PROVE  Memory!Next
      BY <3>4, Storing
    <3>5. CASE Promised' = [kind |-> "none"] /\ UNCHANGED mem
      <4>1. Memory!End
        BY <3>5 DEF Memory!End, Memory!NoTransfer, Promised, Reliant
      <4> QED
        BY <4>1 DEF Memory!Next
    <3>6. CASE /\ Promised = [kind |-> "none"] /\ Promised' = Promised
               /\ mem' \in [Spaces -> [Addrs -> Values]]
      <4>1. Memory!Disturb
        BY <3>6 DEF Memory!Disturb, Memory!NoTransfer, Promised, Reliant
      <4> QED
        BY <4>1 DEF Memory!Next
    <3> QED
      BY <2>2, <3>1, <3>2, <3>3, <3>4, <3>5, <3>6, MemoryStep
  <2> QED
    BY <2>1, <2>2
<1> QED
  BY <1>1, <1>2, GatewayInvariance, PTL DEF GwSpec, RefinesDwordMemory, Memory!Spec
=============================================================================
