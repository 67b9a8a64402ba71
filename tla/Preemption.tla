----------------------------- MODULE Preemption -----------------------------
(***************************************************************************)
(* Calls that the timer may interrupt between two accesses to shared data: *)
(* pmm_alloc_page and pmm_free_page (mm/pmm/pmm.c), proc_create and        *)
(* proc_destroy (proc/proc.c), and ipc_send (ipc/ipc.c).  Nothing in them  *)
(* disables interrupts, and scheduler_tick switches threads inside the     *)
(* handler, so the steps of the threads interleave freely.                 *)
(*                                                                         *)
(* call[t] is where thread t is in its call and what it has in registers.  *)
(* The build may set a bit in the byte in memory or store the byte it      *)
(* tested with the bit set.  The crossed variables remember that two calls *)
(* overlapped in a way the code does not allow for; nothing is stated      *)
(* after a crossing of pages, slots or sends, and no call begins after it. *)
(***************************************************************************)
EXTENDS Integers, Sequences, FiniteSets

CONSTANTS Threads,
          PageCount, PagesPerByte,   \* g_pmm_total_pages, and 8
          SlotCount, MaxPid,         \* PROC_MAX_PROCESSES - 1; bound on pids
          RingSize, MaxSends         \* IPC_MSG_MAX_QUEUE; bound on sends

VARIABLES call,
          bits, hint, used, pages, crossed_pages, crossed_hint,
          slot_pid, next_pid, created, crossed_slot, crossed_pid,
          ring, ring_head, ring_tail, ring_count, sends, received, crossed_ring

pageVars == <<bits, hint, used, pages, crossed_pages, crossed_hint>>
procSlots == <<slot_pid, next_pid, created, crossed_slot, crossed_pid>>
ringVars == <<ring, ring_head, ring_tail, ring_count, sends, received, crossed_ring>>
preemptVars == <<call, pageVars, procSlots, ringVars>>

Out == [pc |-> "out"]
Outside == [t \in Threads |-> Out]
InCall(t, pcs) == call[t].pc \in pcs
Others(t, pcs) == \E u \in Threads \ {t} : InCall(u, pcs)
Goto(t, c) == call' = [call EXCEPT ![t] = c]
-----------------------------------------------------------------------------
AllPages == 0 .. PageCount - 1
Byte(p) == {q \in AllPages : q \div PagesPerByte = p \div PagesPerByte}
Allocating == {"alloc_test", "alloc_set", "alloc_hint"}
Freeing == {"free_clear", "free_compare", "free_store"}

alloc_begin(t) ==
  /\ InCall(t, {"out"}) /\ ~ crossed_pages
  /\ Goto(t, [pc |-> "alloc_test", page |-> hint])
  /\ crossed_hint' = (crossed_hint \/ Others(t, Freeing))
  /\ UNCHANGED <<bits, hint, used, pages, crossed_pages>>

\* Faulty variant: the page at the hint is taken to be free
alloc_test_trusting(t) ==
  LET p == call[t].page
  IN  /\ InCall(t, {"alloc_test"})
      /\ Goto(t, IF p >= PageCount THEN Out
                 ELSE [pc |-> "alloc_set", page |-> p, byte |-> bits \cap Byte(p)])
      /\ crossed_pages' = (crossed_pages \/ Others(t, {"alloc_set", "free_clear"}))
      /\ UNCHANGED <<bits, hint, used, pages, crossed_hint>>

\* One turn of the search: the next page, or the end of the memory
alloc_test(t) ==
  LET p == call[t].page
  IN  /\ InCall(t, {"alloc_test"})
      /\ Goto(t, IF p >= PageCount THEN Out
                 ELSE IF p \in bits THEN [call[t] EXCEPT !.page = p + 1]
                 ELSE [pc |-> "alloc_set", page |-> p, byte |-> bits \cap Byte(p)])
      /\ crossed_pages' = (crossed_pages \/ (p \in AllPages \ bits /\ Others(t, {"alloc_set", "free_clear"})))
      /\ UNCHANGED <<bits, hint, used, pages, crossed_hint>>

\* pmm_set_bit, and the counter
alloc_set(t) ==
  LET p == call[t].page
  IN  /\ InCall(t, {"alloc_set"})
      /\ bits' \in {bits \cup {p}, (bits \ Byte(p)) \cup call[t].byte \cup {p}}
      /\ used' = used + 1
      /\ Goto(t, [pc |-> "alloc_hint", page |-> p])
      /\ UNCHANGED <<hint, pages, crossed_pages, crossed_hint>>

alloc_hint(t) ==
  LET p == call[t].page
  IN  /\ InCall(t, {"alloc_hint"})
      /\ hint' = p + 1
      /\ pages' = [pages EXCEPT ![t] = @ \cup {p}]
      /\ Goto(t, Out)
      /\ UNCHANGED <<bits, used, crossed_pages, crossed_hint>>

\* pmm_free_page of a page the thread owns: the test of its bit
free_begin(t) ==
  /\ InCall(t, {"out"}) /\ ~ crossed_pages
  /\ \E p \in pages[t] :
       /\ pages' = [pages EXCEPT ![t] = @ \ {p}]
       /\ Goto(t, IF p \in bits THEN [pc |-> "free_clear", page |-> p, byte |-> bits \cap Byte(p)] ELSE Out)
  /\ crossed_pages' = (crossed_pages \/ Others(t, {"alloc_set", "free_clear"}))
  /\ crossed_hint' = (crossed_hint \/ Others(t, Allocating \cup Freeing))
  /\ UNCHANGED <<bits, hint, used>>

\* pmm_clear_bit, and the counter
free_clear(t) ==
  LET p == call[t].page
  IN  /\ InCall(t, {"free_clear"})
      /\ bits' \in {bits \ {p}, (bits \ Byte(p)) \cup (call[t].byte \ {p})}
      /\ used' = used - 1
      /\ Goto(t, [pc |-> "free_compare", page |-> p])
      /\ UNCHANGED <<hint, pages, crossed_pages, crossed_hint>>

\* Faulty variant: the page just below the hint does not lower it
free_compare_short(t) ==
  /\ InCall(t, {"free_compare"})
  /\ Goto(t, IF call[t].page + 1 < hint THEN [call[t] EXCEPT !.pc = "free_store"] ELSE Out)
  /\ UNCHANGED pageVars

free_compare(t) ==
  /\ InCall(t, {"free_compare"})
  /\ Goto(t, IF call[t].page < hint THEN [call[t] EXCEPT !.pc = "free_store"] ELSE Out)
  /\ UNCHANGED pageVars

free_store(t) ==
  /\ InCall(t, {"free_store"})
  /\ hint' = call[t].page
  /\ Goto(t, Out)
  /\ UNCHANGED <<bits, used, pages, crossed_pages, crossed_hint>>

PagesInit == /\ bits = {} /\ hint = 0 /\ used = 0 /\ pages = [t \in Threads |-> {}]
             /\ crossed_pages = FALSE /\ crossed_hint = FALSE

PagesNext == \E t \in Threads : \/ alloc_begin(t) \/ alloc_test(t) \/ alloc_set(t) \/ alloc_hint(t)
                                \/ free_begin(t) \/ free_clear(t) \/ free_compare(t) \/ free_store(t)
-----------------------------------------------------------------------------
ProcSlots == 1 .. SlotCount
InSlot(t, s, pcs) == \E u \in Threads \ {t} : InCall(u, pcs) /\ call[u].slot = s

\* The search of proc_create for the first slot that is not in use
create_find(t) ==
  LET free == {s \in ProcSlots : ~ slot_pid[s].ready}
      first == CHOOSE s \in free : \A r \in free : s <= r
  IN  /\ InCall(t, {"out"}) /\ ~ crossed_slot
      /\ free # {} /\ next_pid < MaxPid
      /\ Goto(t, [pc |-> "create_read", slot |-> first])
      /\ crossed_slot' = InSlot(t, first, {"create_read", "create_store", "create_ready", "destroy_pid"})
      /\ UNCHANGED <<slot_pid, next_pid, created, crossed_pid>>

create_read(t) ==
  /\ InCall(t, {"create_read"})
  /\ Goto(t, [pc |-> "create_store", slot |-> call[t].slot, pid |-> next_pid])
  /\ crossed_pid' = (crossed_pid \/ Others(t, {"create_store"}))
  /\ UNCHANGED <<slot_pid, next_pid, created, crossed_slot>>

\* Faulty variant: the next pid is not stored
create_store_same(t) ==
  /\ InCall(t, {"create_store"})
  /\ next_pid' = next_pid
  /\ slot_pid' = [slot_pid EXCEPT ![call[t].slot].pid = call[t].pid]
  /\ Goto(t, [pc |-> "create_ready", slot |-> call[t].slot])
  /\ UNCHANGED <<created, crossed_slot, crossed_pid>>

create_store(t) ==
  /\ InCall(t, {"create_store"})
  /\ next_pid' = call[t].pid + 1
  /\ slot_pid' = [slot_pid EXCEPT ![call[t].slot].pid = call[t].pid]
  /\ Goto(t, [pc |-> "create_ready", slot |-> call[t].slot])
  /\ UNCHANGED <<created, crossed_slot, crossed_pid>>

create_ready(t) ==
  /\ InCall(t, {"create_ready"})
  /\ slot_pid' = [slot_pid EXCEPT ![call[t].slot].ready = TRUE]
  /\ Goto(t, [call[t] EXCEPT !.pc = "create_stack"])
  /\ UNCHANGED <<next_pid, created, crossed_slot, crossed_pid>>

\* The stack is allocated, or there is no memory and the slot is given back
create_stack(t) ==
  LET s == call[t].slot
  IN  /\ InCall(t, {"create_stack"})
      /\ \/ created' = [created EXCEPT ![t] = @ \cup {s}] /\ UNCHANGED slot_pid
         \/ slot_pid' = [slot_pid EXCEPT ![s].ready = FALSE] /\ UNCHANGED created
      /\ Goto(t, Out)
      /\ UNCHANGED <<next_pid, crossed_slot, crossed_pid>>

\* proc_destroy of a process the thread has created
destroy_unused(t) ==
  /\ InCall(t, {"out"}) /\ ~ crossed_slot
  /\ \E s \in created[t] :
       /\ slot_pid' = [slot_pid EXCEPT ![s].ready = FALSE]
       /\ created' = [created EXCEPT ![t] = @ \ {s}]
       /\ Goto(t, [pc |-> "destroy_pid", slot |-> s])
  /\ UNCHANGED <<next_pid, crossed_slot, crossed_pid>>

destroy_pid(t) ==
  /\ InCall(t, {"destroy_pid"})
  /\ slot_pid' = [slot_pid EXCEPT ![call[t].slot].pid = 0]
  /\ Goto(t, Out)
  /\ UNCHANGED <<next_pid, created, crossed_slot, crossed_pid>>

SlotsInit == /\ slot_pid = [s \in ProcSlots |-> [ready |-> FALSE, pid |-> 0]]
             /\ next_pid = 1 /\ created = [t \in Threads |-> {}]
             /\ crossed_slot = FALSE /\ crossed_pid = FALSE

SlotsNext == \E t \in Threads : \/ create_find(t) \/ create_read(t) \/ create_store(t) \/ create_ready(t)
                                \/ create_stack(t) \/ destroy_unused(t) \/ destroy_pid(t)
-----------------------------------------------------------------------------
Cells == 0 .. RingSize - 1

\* Faulty variant: the queue is full with one message too many
ring_full_late == ring_count > RingSize
\* The test of count in ipc_send
ring_full == ring_count >= RingSize

\* ipc_send to one queue up to the address of its slot
send_begin(t) ==
  /\ InCall(t, {"out"}) /\ ~ crossed_ring
  /\ ~ ring_full /\ sends < MaxSends
  /\ sends' = sends + 1
  /\ Goto(t, [pc |-> "send_copy", cell |-> ring_head, msg |-> sends + 1])
  /\ crossed_ring' = (\/ Others(t, {"send_copy", "send_head"})
                      \/ Others(t, {"send_count"}) /\ ring_count = RingSize - 1)
  /\ UNCHANGED <<ring, ring_head, ring_tail, ring_count, received>>

send_copy(t) ==
  /\ InCall(t, {"send_copy"})
  /\ ring' = [ring EXCEPT ![call[t].cell] = call[t].msg]
  /\ Goto(t, [pc |-> "send_head", cell |-> call[t].cell])
  /\ UNCHANGED <<ring_head, ring_tail, ring_count, sends, received, crossed_ring>>

\* The build may read head again or use what it has read
send_head(t) ==
  /\ InCall(t, {"send_head"})
  /\ \E h \in {ring_head, call[t].cell} : ring_head' = (h + 1) % RingSize
  /\ Goto(t, [pc |-> "send_count"])
  /\ UNCHANGED <<ring, ring_tail, ring_count, sends, received, crossed_ring>>

send_count(t) ==
  /\ InCall(t, {"send_count"})
  /\ ring_count' = ring_count + 1
  /\ Goto(t, Out)
  /\ UNCHANGED <<ring, ring_head, ring_tail, sends, received, crossed_ring>>

\* ipc_receive from any sender, by the owner of the queue and not interrupted
receive ==
  LET Nth(i) == (ring_tail + i) % RingSize
      full == {i \in Cells : ring[Nth(i)] # 0}
      first == Nth(CHOOSE i \in full : \A j \in full : i <= j)
  IN  /\ ring_count > 0 /\ full # {} /\ ~ crossed_ring
      /\ received' = Append(received, ring[first])
      /\ ring' = [ring EXCEPT ![first] = 0]
      /\ ring_tail' = (first + 1) % RingSize
      /\ ring_count' = ring_count - 1
      /\ UNCHANGED <<call, ring_head, sends, crossed_ring>>

RingInit == /\ ring = [i \in Cells |-> 0] /\ ring_head = 0 /\ ring_tail = 0 /\ ring_count = 0
            /\ sends = 0 /\ received = <<>> /\ crossed_ring = FALSE

RingNext == receive \/ \E t \in Threads : send_begin(t) \/ send_copy(t) \/ send_head(t) \/ send_count(t)
-----------------------------------------------------------------------------
PreemptInit == call = Outside /\ PagesInit /\ SlotsInit /\ RingInit

\* Threads that are in no call may make none
no_call == call = Outside /\ UNCHANGED preemptVars

PreemptNext(what) ==
  \/ what = "pages" /\ PagesNext /\ UNCHANGED <<procSlots, ringVars>>
  \/ what = "slots" /\ SlotsNext /\ UNCHANGED <<pageVars, ringVars>>
  \/ what = "sends" /\ RingNext /\ UNCHANGED <<pageVars, procSlots>>
  \/ what \in {"pages", "slots", "sends"} /\ no_call
-----------------------------------------------------------------------------
(* No page has two owners, a page is marked used while it is owned, and    *)
(* the counter is the number of pages owned or being handed over, as long  *)
(* as no call tests a bit between another call's test and its update of a  *)
(* bit: the rest of both calls may overlap in every way.                   *)
PagesOwnedOnce ==
  crossed_pages \/
    LET kept == {t \in Threads : InCall(t, {"alloc_hint", "free_clear"})}
        owned(t) == pages[t] \cup (IF t \in kept THEN {call[t].page} ELSE {})
    IN  /\ \A t, u \in Threads : t # u => owned(t) \cap owned(u) = {}
        /\ bits = UNION {owned(t) : t \in Threads}
        /\ used = Cardinality(bits)

(* When no call is under way every free page is at or above the hint, as   *)
(* long as no pmm_free_page has overlapped another call and no two calls   *)
(* crossed at a bit: allocations may store the hint in any order.          *)
HintUnderPreemption ==
  call = Outside /\ ~ crossed_hint /\ ~ crossed_pages => \A p \in AllPages \ bits : p >= hint

(* Every process that proc_create has returned has a slot of its own that  *)
(* is in use under a pid other than idle's, as long as no search found the *)
(* slot of a creation that had not marked it yet or of a proc_destroy that *)
(* had not cleared its pid yet; and the pids differ as long as no two      *)
(* creations read the same next pid.                                       *)
ProcessesDistinct ==
  crossed_slot \/
    LET all == UNION {created[t] : t \in Threads}
    IN  /\ \A t, u \in Threads : t # u => created[t] \cap created[u] = {}
        /\ \A s \in all : slot_pid[s].ready /\ slot_pid[s].pid # 0
        /\ crossed_pid \/ \A s, r \in all : s # r => slot_pid[s].pid # slot_pid[r].pid

(* Every message that was copied is in its ring or has been received, once *)
(* and in the order of the sends, and count lags behind by the sends that  *)
(* have not ended, as long as no ipc_send begins before another has moved  *)
(* the head, or, with one slot left, before another has counted its own.   *)
SendsKept ==
  crossed_ring \/
    LET Now(pcs) == Cardinality({t \in Threads : InCall(t, pcs)})
        live == {i \in Cells : ring[i] # 0}
    IN  /\ received = [i \in 1 .. Len(received) |-> i]
        /\ {ring[i] : i \in live} = Len(received) + 1 .. sends - Now({"send_copy"})
        /\ Cardinality(live) = ring_count + Now({"send_head", "send_count"})

(* pmm_alloc_page, pmm_free_page, proc_create, proc_destroy and ipc_send   *)
(* stay correct when they preempt one another, outside the windows         *)
(* excepted above.                                                         *)
PreemptionSafe == PagesOwnedOnce /\ HintUnderPreemption /\ ProcessesDistinct /\ SendsKept
=============================================================================
