------------------------------ MODULE DmaPages ------------------------------
(***************************************************************************)
(* NNT_GET_DMA_PAGES and NNT_RELEASE_DMA_PAGES: dma_pages_ioctl of         *)
(* nnt_driver/nnt_ioctl.c over map_dma_pages and release_dma_pages of      *)
(* nnt_driver/nnt_dma.c, for one device.                                   *)
(*                                                                         *)
(* The ioctl holds the device's mutex (module IoctlDispatch), so the calls *)
(* do not interleave, but the two lists are the device's: users share      *)
(* them.  A user has a release to do once its GET has returned 0, which it *)
(* does for every failure but that of the last copy to user space.  But    *)
(* nothing is checked: a user may release at any time, and as many pages   *)
(* as it likes; or close its file, or die, which releases nothing.         *)
(*                                                                         *)
(* Every GET asks for Total pages here, no more than page_address_array    *)
(* has places.                                                             *)
(*                                                                         *)
(* The kernel is external: get_user_pages_fast pins as many of the pages   *)
(* asked for as it likes; allocation and mapping may fail.                 *)
(***************************************************************************)
EXTENDS Integers, FiniteSets

CONSTANTS
  Users,
  Buffer,      \* [Users -> set of pages]: the page at each index
  Total,       \* page_info.total_pages of the GETs
  Null,        \* a NULL page, and the address 0
  Wild,        \* what lies in freed memory or behind the end of page_list
  MaxGets,     \* bound on the GETs
  MaxFailures  \* bound on the failures

Index == 0..(Total - 1)
Pages == {Buffer[u][k] : u \in Users, k \in Index}

ASSUME DmaAssumption ==
  /\ Total \in Nat \ {0} /\ MaxGets \in Nat /\ MaxFailures \in Nat
  /\ {Null, Wild} \cap Pages = {} /\ Null # Wild

VARIABLES
  pageList,   \* dma_page.page_list
  addrList,   \* dma_page.dma_address_list: the page each address maps
  pinned,     \* how often each page is pinned
  mapped,     \* how often each page is mapped for DMA
  phase,      \* how far the ioctl is
  user,       \* whose ioctl it is
  first,      \* total_pinned
  round,      \* pinned_pages
  counter,    \* page_mapped_counter
  answer,     \* page_info.page_address_array: the page each address maps
  owes,       \* users whose GET returned 0 and that have not released
  gets, failures,
  short,      \* history: a buffer was not pinned at once
  overlapped, \* history: a GET while a user owes a release
  misused,    \* history: a RELEASE by a user that owes none, or of more pages
              \* than a GET asks for
  leaked      \* history: how often each page was pinned for users that have gone
              \* without a release, or have left it out of theirs

lists == <<pageList, addrList>>
kernel == <<pinned, mapped>>
loop == <<first, round, counter>>
history == <<gets, failures, short, overlapped, misused, leaked>>
dmaVars == <<lists, kernel, phase, user, loop, answer, owes, history>>

Fresh == [k \in Index |-> Null]
Freed == [k \in Index |-> Wild]
NoList == [k \in {} |-> Null]   \* a NULL pointer

\* How many of the places K of a list hold page p.
Count(list, K, p) == Cardinality({k \in K : list[k] = p})

Lists == [Index -> Pages \cup {Null, Wild}] \cup {NoList}

DmaTypeOK ==
  /\ pageList \in Lists /\ addrList \in Lists
  /\ pinned \in [Pages -> 0..(MaxGets * Total)]
  /\ mapped \in [Pages -> 0..(MaxGets * Total)]
  /\ phase \in {"idle", "pin", "map", "reply", "oops"}
  /\ user \in Users
  /\ first \in Index \cup {Total} /\ round \in 0..Total /\ counter \in 0..Total
  /\ first + round <= Total
  /\ answer \in [Index -> Pages \cup {Null, Wild}]
  /\ owes \subseteq Users
  /\ gets \in 0..MaxGets /\ failures \in 0..MaxFailures
  /\ short \in BOOLEAN /\ overlapped \in BOOLEAN /\ misused \in BOOLEAN
  /\ leaked \in [Pages -> Nat]

DmaInit ==
  /\ pageList = NoList /\ addrList = NoList
  /\ pinned = [p \in Pages |-> 0] /\ mapped = [p \in Pages |-> 0]
  /\ phase = "idle" /\ user \in Users
  /\ first = 0 /\ round = 0 /\ counter = 0
  /\ answer = Fresh
  /\ owes = {}
  /\ gets = 0 /\ failures = 0
  /\ short = FALSE /\ overlapped = FALSE /\ misused = FALSE
  /\ leaked = [p \in Pages |-> 0]

----------------------------------------------------------------------------
(* map_dma_pages *)

Fail == failures < MaxFailures /\ failures' = failures + 1

\* The ioctl returns 0, and its user has a release to do.
ReturnZero == phase' = "idle" /\ owes' = owes \cup {user}

Get(u) ==
  /\ phase = "idle" /\ gets < MaxGets
  /\ gets' = gets + 1
  /\ user' = u
  /\ first' = 0 /\ round' = 0 /\ counter' = 0
  /\ answer' = Fresh
  /\ overlapped' = (overlapped \/ owes # {})
  /\ pageList' = Fresh
  /\ phase' = "pin"
  /\ UNCHANGED <<addrList, kernel, owes, failures, short, misused, leaked>>

\* can_do_mlock refuses, or page_list cannot be allocated: 0 is returned.
GetRefused(u) ==
  /\ phase = "idle" /\ gets < MaxGets
  /\ Fail
  /\ gets' = gets + 1
  /\ user' = u
  /\ overlapped' = (overlapped \/ owes # {})
  /\ \/ UNCHANGED pageList
     \/ pageList' = NoList
  /\ phase' = "idle" /\ owes' = owes \cup {u}
  /\ UNCHANGED <<addrList, kernel, loop, answer, short, misused, leaked>>

Mapping == phase = "pin" /\ first < Total

\* Wrong variant: the pages of a later round go to the front of the list.
PinAtFront ==
  /\ Mapping
  /\ \E n \in 1..(Total - first) :
       /\ round' = n
       /\ short' = (short \/ n < Total - first)
       /\ pageList' = [k \in Index |-> IF k < n THEN Buffer[user][first + k] ELSE pageList[k]]
       /\ pinned' = [p \in Pages |->
                      IF \E k \in first..(first + n - 1) : Buffer[user][k] = p
                      THEN pinned[p] + 1 ELSE pinned[p]]
  /\ addrList' = Fresh
  /\ phase' = "map"
  /\ UNCHANGED <<mapped, user, first, counter, answer, owes, gets, failures, overlapped, misused, leaked>>

\* get_user_pages_fast pins the next pages, at least one.
PinNext ==
  \E n \in 1..(Total - first) :
    LET now == first..(first + n - 1) IN
    /\ round' = n
    /\ short' = (short \/ n < Total - first)
    /\ pageList' = [k \in Index |-> IF k \in now THEN Buffer[user][k] ELSE pageList[k]]
    /\ pinned' = [p \in Pages |-> pinned[p] + Count(Buffer[user], now, p)]

\* A round of the loop begins.  It also allocates the address list, once
\* more in every round.
Pin ==
  /\ Mapping
  /\ PinNext
  /\ addrList' = Fresh
  /\ phase' = "map"
  /\ UNCHANGED <<mapped, user, first, counter, answer, owes, gets, failures, overlapped, misused, leaked>>

\* No page is pinned: page_list is freed, and the pointer to it stays.
PinNone ==
  /\ Mapping
  /\ Fail
  /\ pageList' = Freed
  /\ addrList' = Fresh
  /\ ReturnZero
  /\ UNCHANGED <<kernel, user, loop, answer, gets, short, overlapped, misused, leaked>>

\* The address list cannot be allocated, with the pages already pinned.
AddressListFails ==
  /\ Mapping
  /\ Fail
  /\ PinNext
  /\ addrList' = NoList
  /\ ReturnZero
  /\ UNCHANGED <<mapped, user, first, counter, answer, gets, overlapped, misused, leaked>>

\* dma_mapping_page adds total_pinned to a pointer that is total_pinned into
\* the list already.
PageToMap ==
  LET k == first + first + counter IN IF k < Total THEN pageList[k] ELSE Wild

Map ==
  /\ phase = "map" /\ counter < round
  /\ addrList' = [addrList EXCEPT ![first + counter] = PageToMap]
  /\ answer' = [answer EXCEPT ![first + counter] = PageToMap]
  /\ mapped' = [p \in Pages |-> IF p = PageToMap THEN mapped[p] + 1 ELSE mapped[p]]
  /\ counter' = counter + 1
  /\ UNCHANGED <<pageList, pinned, phase, user, first, round, owes, history>>

MapFails ==
  /\ phase = "map" /\ counter < round
  /\ Fail
  /\ ReturnZero
  /\ UNCHANGED <<lists, kernel, user, loop, answer, gets, short, overlapped, misused, leaked>>

\* Wrong variant: leaves the last page of the round out.
EndRoundEarly ==
  /\ phase = "map" /\ counter >= round - 1
  /\ first' = first + round
  /\ round' = 0
  /\ phase' = IF first' = Total THEN "reply" ELSE "pin"
  /\ UNCHANGED <<lists, kernel, user, counter, answer, owes, history>>

\* page_mapped_counter goes on from where the last round left it.
EndRound ==
  /\ phase = "map" /\ counter >= round
  /\ first' = first + round
  /\ round' = 0
  /\ phase' = IF first' = Total THEN "reply" ELSE "pin"
  /\ UNCHANGED <<lists, kernel, user, counter, answer, owes, history>>

\* The answer is copied to the user.
Reply ==
  /\ phase = "reply"
  /\ ReturnZero
  /\ UNCHANGED <<lists, kernel, user, loop, answer, history>>

\* It cannot be copied: the user is told so, and the pages stay.
ReplyFails ==
  /\ phase = "reply"
  /\ Fail
  /\ phase' = "idle"
  /\ UNCHANGED <<lists, kernel, user, loop, answer, owes, gets, short, overlapped, misused, leaked>>

----------------------------------------------------------------------------
(* release_dma_pages *)

\* Wrong variant: the pages are not put.
UnpinForgotten(n, p) == pinned[p]

Unpinned(n, p) == pinned[p] - Count(pageList, 0..(n - 1), p)

\* The first n places of the lists are there.
Usable(n) ==
  n > 0 => /\ pageList # NoList /\ addrList # NoList /\ n <= Total
           /\ \A k \in 0..(n - 1) : pageList[k] \notin {Null, Wild}

Misuse(u, n) == misused' = (misused \/ u \notin owes \/ n > Total)

\* The user's total_pages is n.  The list is given up as a whole, whatever
\* was left in it.
Release(u, n) ==
  /\ phase = "idle" /\ Usable(n)
  /\ pinned' = [p \in Pages |-> Unpinned(n, p)]
  /\ mapped' = [p \in Pages |-> mapped[p] - Count(addrList, 0..(n - 1), p)]
  /\ pageList' = NoList
  /\ addrList' = [k \in DOMAIN addrList |-> IF k < n THEN Null ELSE addrList[k]]
  /\ owes' = owes \ {u}
  /\ Misuse(u, n)
  /\ leaked' = IF u \in owes
               THEN [p \in Pages |-> leaked[p] + Count(Buffer[u], n..(Total - 1), p)]
               ELSE leaked
  /\ UNCHANGED <<phase, user, loop, answer, gets, failures, short, overlapped>>

\* A list or a page that is not there: the thread dies with the mutex.
ReleaseOops(u, n) ==
  /\ phase = "idle" /\ ~Usable(n)
  /\ phase' = "oops"
  /\ Misuse(u, n)
  /\ UNCHANGED <<lists, kernel, user, loop, answer, owes, gets, failures, short, overlapped, leaked>>

\* close: no release handler of the three drivers knows of the pages.
Close(u) ==
  /\ phase = "idle" /\ u \in owes
  /\ owes' = owes \ {u}
  /\ leaked' = [p \in Pages |-> leaked[p] + Count(Buffer[u], Index, p)]
  /\ UNCHANGED <<lists, kernel, phase, user, loop, answer, gets, failures, short, overlapped, misused>>

DmaNext ==
  \/ \E u \in Users : Get(u) \/ GetRefused(u) \/ Close(u)
  \/ \E u \in Users, n \in 0..(Total + 1) : Release(u, n) \/ ReleaseOops(u, n)
  \/ Pin \/ PinNone \/ AddressListFails
  \/ Map \/ MapFails \/ EndRound
  \/ Reply \/ ReplyFails

DmaSpec == DmaInit /\ [][DmaNext]_dmaVars

----------------------------------------------------------------------------
(* Properties *)

\* A buffer that the kernel pins at once is answered page by page: each
\* address the user is given maps the page at that place of its buffer, and
\* the page is pinned.
AnsweredIsMapped ==
  phase = "reply" /\ ~short =>
    \A k \in Index : LET p == Buffer[user][k] IN
      answer[k] = p /\ pinned[p] > 0 /\ mapped[p] > 0

\* "Unpin the user space memory" (README): once no GET is left to release,
\* the pages still pinned are those of the users that have gone without a
\* release, once for each of their GETs, and those that the others left out of
\* theirs, and no more, in however many rounds it was; and none but they are
\* mapped, if it was one round.  Unless a GET failed half way or replaced the
\* lists of another, or a RELEASE had no GET or asked for more than its own.
ReleasedIsFree ==
  phase = "idle" /\ owes = {} /\ failures = 0 /\ ~overlapped /\ ~misused =>
    \A p \in Pages :
      /\ pinned[p] = leaked[p]
      /\ mapped[p] = leaked[p] \/ short

\* release_dma_pages, which checks nothing, meets lists or pages that are not
\* there only after a GET failed (and told its user 0), replaced the lists of
\* another, or with a RELEASE that had no GET or asked for more than its own:
\* not after any number of rounds, of closes and of RELEASEs of fewer pages.
OopsOnlyAfterMisuse == phase = "oops" => failures > 0 \/ overlapped \/ misused

\* "Return the physical address to the user" (nnt_ioctl.c), when the kernel
\* pins "fewer than the number requested" (nnt_dma.c) as well: each address
\* maps the page at that place of the buffer.
EveryPageAnswered ==
  phase = "reply" => \A k \in Index : answer[k] = Buffer[user][k]
=============================================================================
