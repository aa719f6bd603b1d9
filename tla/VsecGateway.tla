---------------------------- MODULE VsecGateway ----------------------------
(***************************************************************************)
(* The transactions that run under the VSEC semaphore: read_pciconf,       *)
(* write_pciconf and read_dword of nnt_driver/nnt_pci_conf_access.c, the   *)
(* gateway registers they share, and what the ioctl handlers of            *)
(* mst_pciconf_bc.c and mst_main.c make of their result.                   *)
(*                                                                         *)
(* The module extends VsecSemaphore: a client locks there, runs one of the *)
(* bodies below while it is in "cs", and clears there.  A request names    *)
(* dwords, so an offset of n * 4 bytes is the address n.  Its size is in   *)
(* bytes: in the buffer commands it is the user's word, which nothing      *)
(* compares with the length of data[].                                     *)
(*                                                                         *)
(* The device is external.  A dword written to the address register starts *)
(* a read (flag clear) or a write (flag set) of the space then selected in *)
(* the control register; the device answers, or never does, by serving it  *)
(* and inverting the flag.                                                 *)
(***************************************************************************)
EXTENDS VsecSemaphore, RwOperation

CONSTANTS
  Spaces,       \* address spaces a request may name
  Supported,    \* those whose status in the control register is not zero
  MaxAddr,      \* the last address of 30 bits
  Values,       \* contents of a dword
  InitialMem,   \* contents of the device's spaces
  MaxPolls,     \* IFC_MAX_RETRIES
  Requests,     \* what user space may ask for: [cmd, space, addr, size, data]
  PciErrors,    \* the errors of config space accesses: PCIBIOS_*, positive
  FallsThrough, \* commands whose case runs on into MST_READ4's (mst_main.c)
  MaxCalls      \* bound on the ioctls

VARIABLES
  req,       \* each client's request; req.data is the operation's data[]
  stage,     \* where its body is
  word,      \* dwords transferred: "counter" / 4
  polls,     \* "retries" of wait_on_flag
  buf,       \* the operation's data[]
  err,       \* "error": what the transaction will return
  smashed,   \* clients whose handler's stack was written behind data[]
  calls,     \* ioctls so far
  gaveUp,    \* history: clients whose wait_on_flag never saw the flag
  hw,        \* the gateway registers: [space, flag, addr, data, busy]
  mem,       \* the device's address spaces
  alone      \* history: holders that had the gateway to themselves so far

bodyVars == <<req, stage, word, polls, buf, err, smashed, calls, gaveUp>>
gwVars == <<vars, bodyVars, hw, mem, alone>>

Buffers == {"READ4_BUFFER", "WRITE4_BUFFER"}
Writes == {"WRITE4", "WRITE4_BUFFER"}
Commands == Buffers \cup Writes \cup {"READ4", "READ4_AGAIN", "READ_DWORD"}
Stages == {"none", "space", "status", "data", "addr", "wait", "fetch", "bad",
           "dword", "done", "dead"}

EINVAL == -22

Addrs == 0..MaxAddr
AnyRequest == [cmd : Commands, space : Spaces, addr : Nat, size : Int, data : Seq(Values)]
NoRequest == [cmd |-> "none", size |-> 0, data |-> <<>>]
AnyValue == CHOOSE v \in Values : TRUE

ASSUME GatewayAssumption ==
  /\ MaxAddr \in Nat /\ MaxPolls \in Nat /\ MaxCalls \in Nat
  /\ Values # {}
  /\ PciErrors \subseteq Nat \ {0}
  /\ InitialMem \in [Spaces -> [Addrs -> Values]]
  /\ Requests \subseteq AnyRequest
  /\ \A r \in Requests : r.cmd \notin Buffers => r.size = 4 /\ Len(r.data) = 1

GwTypeOK ==
  /\ req \in [Clients -> AnyRequest \cup {NoRequest}]
  /\ stage \in [Clients -> Stages]
  /\ polls \in [Clients -> 0..MaxPolls]
  /\ \A c \in Clients :
       /\ word[c] \in 0..Count(req[c])
       /\ stage[c] \in {"data", "addr", "fetch"} => word[c] < Count(req[c])
       /\ buf[c] \in [DOMAIN req[c].data -> Values]
       /\ err[c] \in {EINVAL, 4 * word[c], 0} \cup PciErrors
  /\ hw \in [space : Spaces, flag : {0, 1}, addr : Addrs, data : Values, busy : BOOLEAN]
  /\ mem \in [Spaces -> [Addrs -> Values]]
  /\ alone \subseteq Holders
  /\ gaveUp \subseteq Clients
  /\ smashed \subseteq Clients
  /\ calls \in 0..MaxCalls

GwInit ==
  /\ Init
  /\ req = [c \in Clients |-> NoRequest]
  /\ stage = [c \in Clients |-> "none"]
  /\ word = [c \in Clients |-> 0]
  /\ polls = [c \in Clients |-> 0]
  /\ buf = [c \in Clients |-> <<>>]
  /\ err = [c \in Clients |-> 0]
  /\ \E s \in Spaces, v \in Values :
       hw = [space |-> s, flag |-> 0, addr |-> 0, data |-> v, busy |-> FALSE]
  /\ mem = InitialMem
  /\ alone = {}
  /\ gaveUp = {}
  /\ smashed = {}
  /\ calls = 0

----------------------------------------------------------------------------
(* The ioctl handlers, around the transaction *)

\* A client runs the ioctl with request r.  READ4 and WRITE4 of
\* mst_pciconf_bc.c leave address_space uninitialised: Requests then holds
\* them with every space.
Start(c, r) ==
  /\ Begin(c)
  /\ req' = [req EXCEPT ![c] = r]
  /\ buf' = [buf EXCEPT ![c] = r.data]
  /\ stage' = [stage EXCEPT ![c] = IF r.cmd = "READ_DWORD" THEN "dword" ELSE "space"]
  /\ UNCHANGED <<word, polls, err, smashed, gaveUp, hw, mem>>

\* What the transaction returned to the handler.
Result(c) == err[c]

\* What the ioctl returns.  The buffer commands turn success into the
\* size; READ_DWORD drops the error.
Reply(c) ==
  CASE req[c].cmd \in Buffers -> IF Result(c) = 0 THEN req[c].size ELSE Result(c)
    [] req[c].cmd = "READ_DWORD" -> 0
    [] OTHER -> Result(c)

\* The case of READ4_BUFFER ends without a break in mst_main.c: a success
\* goes on to read the first dword once more, into a data[] that has not been
\* set, and its result is returned.
Rerun(c) ==
  [cmd |-> "READ4_AGAIN", space |-> req[c].space, addr |-> req[c].addr,
   size |-> 4, data |-> <<AnyValue>>]

RunsOn(c) == req[c].cmd \in FallsThrough /\ Result(c) = 0

\* clear_vsec_semaphore, and back in the handler: or not, if its frame has
\* been written over.
Finish(c) ==
  /\ Clear(c) \/ ClearError(c)
  /\ req' = [req EXCEPT ![c] = IF RunsOn(c) THEN Rerun(c) ELSE NoRequest]
  /\ buf' = [buf EXCEPT ![c] = req'[c].data]
  /\ \/ stage' = [stage EXCEPT ![c] = "none"]
     \/ c \in smashed /\ stage' = [stage EXCEPT ![c] = "dead"]
  /\ smashed' = smashed \ {c}
  /\ word' = [word EXCEPT ![c] = 0]
  /\ polls' = [polls EXCEPT ![c] = 0]
  /\ err' = [err EXCEPT ![c] = 0]
  /\ gaveUp' = gaveUp \ {c}
  /\ UNCHANGED <<calls, hw, mem>>

Call(c) ==
  /\ stage[c] = "none"
  /\ \/ /\ req[c] = NoRequest /\ calls < MaxCalls
        /\ \E r \in Requests : Start(c, r)
        /\ calls' = calls + 1
     \/ req[c] # NoRequest /\ Start(c, req[c]) /\ UNCHANGED calls

----------------------------------------------------------------------------
(* The bodies of read_pciconf and write_pciconf *)

At(c, s) == pc[c] = "cs" /\ stage[c] = s

Go(c, s) == stage' = [stage EXCEPT ![c] = s]

\* set_rw_address refuses an address of more than 30 bits.
Reachable(a) == a <= MaxAddr

\* Wrong variant: one dword too many.
LoopPastEnd(r, w) ==
  IF w > Count(r) THEN "done"
  ELSE IF ~Reachable(r.addr + w) THEN "bad"
  ELSE IF r.cmd \in Writes THEN "data" ELSE "addr"

\* Where the loop over the dwords goes with w of them transferred.
LoopAfter(r, w) ==
  IF w = Count(r) THEN "done"
  ELSE IF ~Reachable(r.addr + w) THEN "bad"
  ELSE IF r.cmd \in Writes THEN "data" ELSE "addr"

\* set_address_space: read the control register, put the space in it, ...
SetSpace(c) ==
  /\ At(c, "space")
  /\ hw' = [hw EXCEPT !.space = req[c].space]
  /\ Go(c, "status")
  /\ UNCHANGED <<vars, req, word, polls, buf, err, smashed, calls, gaveUp, mem>>

\* ... and look at the status of the space that is in it now.
CheckStatus(c) ==
  /\ At(c, "status")
  /\ \/ hw.space \in Supported /\ Go(c, LoopAfter(req[c], 0)) /\ UNCHANGED err
     \/ hw.space \notin Supported /\ Go(c, "done") /\ err' = [err EXCEPT ![c] = EINVAL]
  /\ UNCHANGED <<vars, req, word, polls, buf, smashed, calls, gaveUp, hw, mem>>

\* Wrong variant: counts the dword that failed.
RefuseCounted(c) ==
  /\ At(c, "bad")
  /\ err' = [err EXCEPT ![c] = 4 * (word[c] + 1)]
  /\ Go(c, "done")
  /\ UNCHANGED <<vars, req, word, polls, buf, smashed, calls, gaveUp, hw, mem>>

\* A dword that fails makes the byte count so far the error.
Refuse(c) ==
  /\ At(c, "bad")
  /\ err' = [err EXCEPT ![c] = 4 * word[c]]
  /\ Go(c, "done")
  /\ UNCHANGED <<vars, req, word, polls, buf, smashed, calls, gaveUp, hw, mem>>

\* The dword the loop is at has no place in data[].
Past(c) == BehindData(req[c], word[c])

\* What data[] holds for it: behind the end, whatever is there.
Sent(c) == IF Past(c) THEN Values ELSE {req[c].data[word[c] + 1]}

WriteData(c) ==
  /\ At(c, "data")
  /\ \E v \in Sent(c) : hw' = [hw EXCEPT !.data = v]
  /\ Go(c, "addr")
  /\ UNCHANGED <<vars, req, word, polls, buf, err, smashed, calls, gaveUp, mem>>

\* set_rw_address puts the operation in the flag bit.
OperationFlag(c) == IF req[c].cmd \in Writes THEN 1 ELSE 0

\* Writing the address register hands the operation to the device.
WriteAddress(c) ==
  /\ At(c, "addr")
  /\ hw' = [hw EXCEPT !.flag = OperationFlag(c), !.addr = req[c].addr + word[c], !.busy = TRUE]
  /\ polls' = [polls EXCEPT ![c] = 0]
  /\ Go(c, "wait")
  /\ UNCHANGED <<vars, req, word, buf, err, smashed, calls, gaveUp, mem>>

\* Wrong variant: a read counts its dword without fetching it.
AfterWaitUnfetched(c) ==
  /\ word' = [word EXCEPT ![c] = @ + 1]
  /\ Go(c, LoopAfter(req[c], word'[c]))

\* After wait_on_flag: a read fetches the data, a write is done with the dword.
AfterWait(c) ==
  IF req[c].cmd \in Writes
  THEN /\ word' = [word EXCEPT ![c] = @ + 1]
       /\ Go(c, LoopAfter(req[c], word'[c]))
  ELSE /\ Go(c, "fetch")
       /\ UNCHANGED word

\* Wrong variant: expected_val of the other operation.
AnsweredFlagSwapped(c) == IF req[c].cmd \in Writes THEN 1 ELSE 0

\* The flag wait_on_flag waits for.
AnsweredFlag(c) == IF req[c].cmd \in Writes THEN 0 ELSE 1

FlagSeen(c) ==
  /\ At(c, "wait")
  /\ polls[c] < MaxPolls
  /\ hw.flag = AnsweredFlag(c)
  /\ AfterWait(c)
  /\ UNCHANGED <<vars, req, polls, buf, err, smashed, calls, gaveUp, hw, mem>>

FlagNotSeen(c) ==
  /\ At(c, "wait")
  /\ polls[c] < MaxPolls
  /\ hw.flag # AnsweredFlag(c)
  /\ polls' = [polls EXCEPT ![c] = @ + 1]
  /\ UNCHANGED <<vars, req, stage, word, buf, err, smashed, calls, gaveUp, hw, mem>>

\* Wrong variant: starts over instead of giving up.
WaitRestarted(c) ==
  /\ At(c, "wait")
  /\ polls[c] = MaxPolls
  /\ polls' = [polls EXCEPT ![c] = 0]
  /\ UNCHANGED <<vars, req, stage, word, buf, err, smashed, calls, gaveUp, hw, mem>>

\* wait_on_flag runs out of retries and returns the result of its last read
\* of config space, 0: the dword passes for answered.
WaitExhausted(c) ==
  /\ At(c, "wait")
  /\ polls[c] = MaxPolls
  /\ gaveUp' = gaveUp \cup {c}
  /\ AfterWait(c)
  /\ UNCHANGED <<vars, req, polls, buf, err, smashed, calls, hw, mem>>

\* A dword read behind the end of data[] lands in the handler's stack.
ReadData(c) ==
  /\ At(c, "fetch")
  /\ IF Past(c)
     THEN smashed' = smashed \cup {c} /\ UNCHANGED buf
     ELSE buf' = [buf EXCEPT ![c][word[c] + 1] = hw.data] /\ UNCHANGED smashed
  /\ word' = [word EXCEPT ![c] = @ + 1]
  /\ Go(c, LoopAfter(req[c], word'[c]))
  /\ UNCHANGED <<vars, req, polls, err, calls, gaveUp, hw, mem>>

\* Behind the end of data[] the stack ends somewhere: the thread dies, with
\* the semaphore taken.
RunOff(c) ==
  /\ At(c, "data") \/ At(c, "fetch")
  /\ Past(c)
  /\ Go(c, "dead")
  /\ UNCHANGED <<vars, req, word, polls, buf, err, smashed, calls, gaveUp, hw, mem>>

\* The body of read_dword: one read anywhere in config space.
ReadDword(c) ==
  /\ At(c, "dword")
  /\ \E v \in Values : buf' = [buf EXCEPT ![c] = <<v>>]
  /\ word' = [word EXCEPT ![c] = 1]
  /\ Go(c, "done")
  /\ UNCHANGED <<vars, req, polls, err, smashed, calls, gaveUp, hw, mem>>

\* A config access fails: the error is that of the access, which inside a
\* dword the byte count replaces.
AccessFails(c) ==
  /\ BodyError(c)
  /\ stage[c] \notin {"bad", "done", "dead"}
  /\ \E e \in IF stage[c] \in {"space", "status", "dword"} THEN PciErrors ELSE {4 * word[c]} :
       err' = [err EXCEPT ![c] = e]
  /\ Go(c, "done")
  /\ UNCHANGED <<req, word, polls, buf, smashed, calls, gaveUp, hw, mem>>

BodyDone(c) ==
  /\ Leave(c)
  /\ stage[c] = "done"
  /\ UNCHANGED <<bodyVars, hw, mem>>

Body(c) ==
  \/ SetSpace(c) \/ CheckStatus(c) \/ Refuse(c) \/ WriteData(c) \/ WriteAddress(c)
  \/ FlagSeen(c) \/ FlagNotSeen(c) \/ WaitExhausted(c) \/ ReadData(c) \/ RunOff(c)
  \/ ReadDword(c) \/ BodyDone(c)

----------------------------------------------------------------------------
(* The device, and the composition *)

\* The device serves the operation in the address register, in the space
\* then selected, and inverts the flag.
DeviceAnswers ==
  /\ hw.busy
  /\ \/ /\ hw.flag = 0
        /\ hw' = [hw EXCEPT !.data = mem[hw.space][hw.addr], !.flag = 1, !.busy = FALSE]
        /\ UNCHANGED mem
     \/ /\ hw.flag = 1
        /\ mem' = [mem EXCEPT ![hw.space][hw.addr] = hw.data]
        /\ hw' = [hw EXCEPT !.flag = 0, !.busy = FALSE]
  /\ UNCHANGED <<vars, bodyVars>>

LockStep(c) ==
  /\ \/ PollTaken(c) \/ PollFree(c)
     \/ ReadCounter(c) \/ WriteTicket(c) \/ ReadBack(c)
  /\ UNCHANGED <<bodyVars, hw, mem>>

\* The lock is not taken, with error e.
NotLocked(c, e) ==
  /\ err' = [err EXCEPT ![c] = e]
  /\ UNCHANGED <<req, stage, word, polls, buf, smashed, calls, gaveUp, hw, mem>>

LockTimeout(c) == PollTimeout(c) /\ NotLocked(c, EINVAL)

LockError(c) == ConfigError(c) /\ \E e \in PciErrors : NotLocked(c, e)

ClientProgress(c) == LockStep(c) \/ LockTimeout(c) \/ Body(c) \/ Finish(c)

\* A holder is alone while no other client holds, if the device had nothing
\* left to answer when it began.
StillAlone ==
  {c \in Holders' : Holders' = {c} /\ (IF c \in Holders THEN c \in alone ELSE ~hw.busy)}

GwNext ==
  /\ \/ \E c \in Clients : Call(c) \/ ClientProgress(c) \/ LockError(c) \/ AccessFails(c)
     \/ DeviceAnswers
  /\ alone' = StillAlone

GwSpec == GwInit /\ [][GwNext]_gwVars

----------------------------------------------------------------------------
(* Properties *)

\* The dwords a transaction counts as transferred, and that have a place in
\* data[], are right as long as it has had the gateway to itself and the
\* device answered each in time: what it read is what the device holds, what
\* it wrote is there.
TransferredIntact ==
  \A c \in alone \ gaveUp : req[c].cmd # "READ_DWORD" =>
    \A i \in 1..word[c] : i <= Len(req[c].data) =>
      mem[req[c].space][req[c].addr + i - 1] =
        IF req[c].cmd \in Writes THEN req[c].data[i] ELSE buf[c][i]

\* While a transaction has the gateway to itself, and the device answered
\* each of its dwords in time, nothing is stored in the device but the dword
\* it is writing: no operation of an earlier transaction lands in its space.
OnlyAskedIsStored ==
  [][\A s \in Spaces, a \in Addrs : \A c \in alone \ gaveUp : mem'[s][a] # mem[s][a] =>
        /\ req[c].cmd \in Writes /\ s = req[c].space
        /\ a = req[c].addr + word[c]
        /\ word[c] < Len(req[c].data) => mem'[s][a] = req[c].data[word[c] + 1]]_gwVars

\* The unchecked size is all that lets a transaction out of data[]: memory
\* behind it is sent to the device, or written over, only for a request of
\* more dwords than data[] has, and not because of a size that is no multiple
\* of four or is negative, a device that does not answer, or the second read
\* that follows READ4_BUFFER.
OnlySizeOverruns ==
  \A c \in Clients :
    c \in smashed \/ (stage[c] \in {"data", "fetch"} /\ Past(c)) => ~Fits(req[c])

\* A positive result of a transaction means one of two things, which it does
\* not tell apart: a dword failed, and it is the number of bytes that passed
\* the gateway before; or a config access in front of the loop failed, and it
\* is the PCIBIOS_* code of that, no byte count, and nothing has passed.
ErrorCountsTransferred ==
  \A c \in Clients : pc[c] = "clear" /\ Result(c) > 0 =>
    \/ Result(c) = 4 * word[c] /\ word[c] < Count(req[c])
    \/ Result(c) \in PciErrors /\ word[c] = 0

\* Request r, with n dwords done and those read in b, as a transaction of
\* DwordMemory.
TransferOf(r, n, b) ==
  [kind  |-> IF r.cmd = "READ_DWORD" THEN "elsewhere"
             ELSE IF r.cmd \in Writes THEN "write" ELSE "read",
   space |-> r.space, addr |-> r.addr, data |-> r.data, word |-> n, buf |-> b]

Transfer(c) == TransferOf(req[c], word[c], buf[c])

\* The transactions that can rely on the gateway: at most one at a time, which
\* has it to itself and its answers in time, and whose size fits data[].
Reliant == {c \in alone \ gaveUp : Fits(req[c])}

\* The memory promised to the ioctl handlers (module DwordMemory).
Memory == INSTANCE DwordMemory WITH
            transfer <- IF Reliant = {} THEN [kind |-> "none"]
                        ELSE Transfer(CHOOSE c \in Reliant : TRUE)

RefinesDwordMemory == Memory!Spec

\* How many steps the body of c may still take: the dwords left, each with
\* at most MaxPolls reads of the flag.
StagesLeft(c) ==
  [space |-> MaxPolls + 8, status |-> MaxPolls + 7, dword |-> 1, data |-> MaxPolls + 5,
   addr |-> MaxPolls + 4, wait |-> MaxPolls - polls[c] + 3, fetch |-> 2, bad |-> 1,
   done |-> 0, dead |-> 0][stage[c]]

StepsLeft(c) == (Count(req[c]) - word[c]) * (MaxPolls + 9) + StagesLeft(c)

\* A transaction ends even if the device never answers and whatever other
\* clients do to its gateway registers: each step of a body leaves it fewer
\* steps to take, and none takes more than that.
BodyDescends ==
  [][\A c \in Clients : pc[c] = "cs" /\ pc'[c] = "cs" =>
       \/ UNCHANGED <<word[c], stage[c], polls[c]>>
       \/ StepsLeft(c)' \in 0..(StepsLeft(c) - 1)]_gwVars

\* "No error, return the requested data length." (mst_pciconf_bc.c): a buffer
\* command that returns the length has transferred it.
LengthMeansTransferred ==
  \A c \in Clients :
    pc[c] = "clear" /\ req[c].cmd \in Buffers /\ Reply(c) = req[c].size
      => word[c] = Count(req[c])
============================================================================
