----------------------------- MODULE FileEvents -----------------------------
(* The file events of an event loop: the table of masks and callbacks, indexed  *)
(* by descriptor, next to the epoll set that reports what is ready, and the     *)
(* part of process_events that runs the callbacks. Everything here happens in   *)
(* the loop's own thread; what interleaves is the kernel, which makes           *)
(* descriptors ready and uses their numbers again, and the callbacks, which     *)
(* create and delete file events while process_events goes through the reports  *)
(* it has fetched.                                                              *)
EXTENDS Integers, FiniteSets, Sequences, SequencesExt

CONSTANTS
  Fds,                          \* descriptors the kernel may hand out
  InitEventNumber,
  MaxOpens                      \* bound: files opened

ASSUME FileEventsAssumption ==
  /\ Fds \subseteq Nat /\ IsFiniteSet(Fds)
  /\ InitEventNumber \in Nat \ {0} /\ MaxOpens \in Nat

VARIABLES
  nevent, file_events,          \* the table, and how often it has moved
  moved,
  epoll, edge,                  \* registrations, and what became ready since reported
  file, ready, opens,           \* what the descriptors stand for, 0 when closed
  fired, pc, at,                \* process_events
  told,                         \* history: the handler was called since it became ready
  spoiled                       \* history: descriptors the table is wrong about

vars == <<nevent, file_events, moved, epoll, edge, file, ready, opens, fired, pc, at,
          told, spoiled>>
kernel == <<epoll, edge, file, ready, opens>>
loop == <<fired, pc, at>>

Events == {"READABLE", "WRITABLE"}
Handlers == {"read_handler", "write_handler"}
NoCallback == [of |-> 0, handler |-> "none"]
Callbacks == [of : 1 .. MaxOpens, handler : Handlers] \cup {NoCallback}
Empty == [mask |-> {}, read_cb |-> NoCallback, write_cb |-> NoCallback]
Unregistered == [mask |-> {}, et |-> TRUE]
Nothing == [fd |-> 0, mask |-> {}, rfired |-> FALSE, moved |-> 0]

TypeOK ==
  /\ nevent \in Nat \ {0} /\ moved \in Nat
  /\ file_events \in [Fds -> [mask : SUBSET Events, read_cb : Callbacks, write_cb : Callbacks]]
  /\ epoll \in [Fds -> [mask : SUBSET Events, et : BOOLEAN]]
  /\ edge \in [Fds -> SUBSET Events] /\ ready \in [Fds -> SUBSET Events]
  /\ file \in [Fds -> 0 .. MaxOpens] /\ opens \in 0 .. MaxOpens
  /\ pc \in {"idle", "loop", "reading", "read", "writing", "aborted", "overrun"}
  /\ at \in [fd : Nat, mask : SUBSET Events, rfired : BOOLEAN, moved : Nat]
  /\ pc \in {"idle", "loop"} => at = Nothing
  /\ pc \in {"reading", "read", "writing"} => at.fd \in Fds
  /\ fired \in Seq([fd : Fds, mask : SUBSET Events])
  /\ pc = "idle" => fired = <<>>
  /\ told \in [Fds -> SUBSET Events] /\ spoiled \subseteq Fds

\* Callbacks, time events and external events call the functions below.
InThread == pc \in {"idle", "reading", "writing"}

-------------------------------------------------------------------------------
(* Epoll, and the driver. *)

\* EPOLL_CTL_ADD and EPOLL_CTL_MOD look at the file again.
ctl(fd, mask, et) ==
  /\ epoll' = [epoll EXCEPT ![fd] = [mask |-> mask, et |-> et]]
  /\ edge' = [edge EXCEPT ![fd] = IF et THEN ready[fd] \cap mask ELSE {}]
  /\ told' = [told EXCEPT ![fd] = {}]

\* Mutant: the old events are not merged.
add_event_alone(fd, cur_mask, add_mask) ==
  /\ cur_mask # {} => epoll[fd].mask # {}
  /\ ctl(fd, add_mask, TRUE)

\* EPOLL_CTL_MOD of a descriptor that epoll does not know fails.
add_event(fd, cur_mask, add_mask) ==
  /\ cur_mask # {} => epoll[fd].mask # {}
  /\ ctl(fd, cur_mask \cup add_mask, TRUE)

\* What remains is registered without EPOLLET.
del_event(fd, cur_mask, del_mask) ==
  /\ epoll[fd].mask # {}
  /\ IF cur_mask \ del_mask # {}
     THEN ctl(fd, cur_mask \ del_mask, FALSE)
     ELSE /\ epoll' = [epoll EXCEPT ![fd] = Unregistered]
          /\ edge' = [edge EXCEPT ![fd] = {}] /\ told' = [told EXCEPT ![fd] = {}]

\* What epoll_wait reports of a descriptor.
Reported(fd) ==
  LET due == ready[fd] \cap epoll[fd].mask
  IN  IF epoll[fd].et /\ edge[fd] \cap due = {} THEN {} ELSE due

-------------------------------------------------------------------------------
(* The table. *)

\* new_size <<= 2, as often as it may take.
Sizes(size) ==
  LET sizes[k \in Nat] == IF k = 0 THEN size ELSE 4 * sizes[k - 1]
  IN  sizes

\* while (fd > new_size): a descriptor equal to the new size is still outside.
Quadrupled(size, fd) ==
  LET sizes == Sizes(size)
  IN  sizes[CHOOSE k \in 0 .. fd : fd <= sizes[k] /\ \A j \in 0 .. k - 1 : fd > sizes[j]]

\* The size of the table for fd.
NewSize(fd) == IF fd >= nevent THEN Quadrupled(4 * nevent, fd) ELSE nevent

\* Mutant: a table that is to grow by one is taken to be large enough.
Grown_late(fd) ==
  IF fd > nevent THEN nevent' = NewSize(fd) /\ moved' = moved + 1
                 ELSE UNCHANGED <<nevent, moved>>

\* resize_events of the driver does nothing; the vector moves when it is resized.
Grown(fd) ==
  IF fd >= nevent THEN nevent' = NewSize(fd) /\ moved' = moved + 1
                  ELSE UNCHANGED <<nevent, moved>>

\* Mutant: a callback of the other kind is overwritten too.
With_both(event, mask, cb) ==
  [mask |-> event.mask \cup mask, read_cb |-> cb, write_cb |-> cb]

With(event, mask, cb) ==
  [mask |-> event.mask \cup mask,
   read_cb |-> IF "READABLE" \in mask THEN cb ELSE event.read_cb,
   write_cb |-> IF "WRITABLE" \in mask THEN cb ELSE event.write_cb]

\* Mutant: the mask stays.
Without_mask(event, mask) ==
  [mask |-> event.mask,
   read_cb |-> IF "READABLE" \in mask THEN NoCallback ELSE event.read_cb,
   write_cb |-> IF "WRITABLE" \in mask THEN NoCallback ELSE event.write_cb]

Without(event, mask) ==
  [mask |-> event.mask \ mask,
   read_cb |-> IF "READABLE" \in mask THEN NoCallback ELSE event.read_cb,
   write_cb |-> IF "WRITABLE" \in mask THEN NoCallback ELSE event.write_cb]

\* A mask that is there already keeps the callbacks it has.
create_file_event(fd, mask, cb) ==
  /\ InThread /\ file[fd] # 0 /\ cb.of = file[fd]
  /\ IF fd >= NewSize(fd)
     THEN pc' = "overrun" /\ Grown(fd) /\ UNCHANGED <<file_events, epoll, edge, told, fired, at>>
     ELSE /\ Grown(fd)
          /\ IF file_events[fd].mask = mask
             THEN UNCHANGED <<file_events, epoll, edge, told, loop>>
             ELSE \/ /\ add_event(fd, file_events[fd].mask, mask)
                     /\ file_events' = [file_events EXCEPT ![fd] = With(@, mask, cb)]
                     /\ UNCHANGED loop
                  \/ /\ file_events[fd].mask # {} /\ epoll[fd].mask = {}
                     /\ pc' = "aborted" /\ UNCHANGED <<file_events, epoll, edge, told, fired, at>>
  /\ UNCHANGED <<file, ready, opens, spoiled>>

delete_file_event(fd, mask) ==
  /\ InThread /\ file[fd] # 0 /\ fd < nevent /\ file_events[fd].mask # {}
  /\ \/ /\ del_event(fd, file_events[fd].mask, mask)
        /\ file_events' = [file_events EXCEPT ![fd] = Without(@, mask)]
        /\ UNCHANGED loop
     \/ /\ epoll[fd].mask = {}
        /\ pc' = "aborted" /\ UNCHANGED <<file_events, epoll, edge, told, fired, at>>
  /\ UNCHANGED <<nevent, moved, file, ready, opens, spoiled>>

-------------------------------------------------------------------------------
(* The users of the loop, and the files. *)

open(fd) ==
  /\ InThread /\ file[fd] = 0 /\ opens < MaxOpens
  /\ opens' = opens + 1
  /\ file' = [file EXCEPT ![fd] = opens + 1]
  /\ UNCHANGED <<nevent, file_events, moved, epoll, edge, ready, loop, told, spoiled>>

\* Closing a file takes it out of the epoll set.
closed(fd) ==
  /\ InThread /\ file[fd] # 0
  /\ file' = [file EXCEPT ![fd] = 0]
  /\ epoll' = [epoll EXCEPT ![fd] = Unregistered] /\ edge' = [edge EXCEPT ![fd] = {}]
  /\ ready' = [ready EXCEPT ![fd] = {}] /\ told' = [told EXCEPT ![fd] = {}]
  /\ UNCHANGED <<nevent, file_events, moved, opens, loop>>

\* shutdown_socket deletes the file events and closes the socket.
shutdown_socket(fd) ==
  /\ file_events[fd].mask = {}
  /\ closed(fd) /\ UNCHANGED spoiled

\* Without a tick, shutdown_socket does neither, and the socket is closed when the
\* connection gets another one.
drop(fd) ==
  /\ file_events[fd].mask # {}
  /\ closed(fd) /\ spoiled' = spoiled \cup {fd}

arrives(fd, e) ==
  /\ file[fd] # 0 /\ pc \notin {"aborted", "overrun"}
  /\ ready' = [ready EXCEPT ![fd] = @ \cup {e}]
  /\ edge' = [edge EXCEPT ![fd] = IF epoll[fd].et THEN @ \cup (epoll[fd].mask \cap {e}) ELSE @]
  /\ told' = [told EXCEPT ![fd] = @ \ {e}]
  /\ UNCHANGED <<nevent, file_events, moved, epoll, file, opens, loop, spoiled>>

\* A handler reads until EAGAIN, or writes until the buffer is full.
consume(fd, e) ==
  /\ InThread /\ file[fd] # 0 /\ e \in ready[fd]
  /\ ready' = [ready EXCEPT ![fd] = @ \ {e}]
  /\ told' = [told EXCEPT ![fd] = @ \ {e}] /\ edge' = [edge EXCEPT ![fd] = @ \ {e}]
  /\ UNCHANGED <<nevent, file_events, moved, epoll, file, opens, loop, spoiled>>

-------------------------------------------------------------------------------
(* process_events. *)

\* The driver fetches reports, as many as it has room for.
event_wait ==
  /\ pc = "idle"
  /\ \E S \in SUBSET {fd \in Fds : Reported(fd) # {}} :
       /\ Cardinality(S) \in 1 .. InitEventNumber
       /\ \E order \in SetToSeqs(S) :
            fired' = [i \in DOMAIN order |-> [fd |-> order[i], mask |-> Reported(order[i])]]
       /\ edge' = [fd \in Fds |-> IF fd \in S THEN {} ELSE edge[fd]]
  /\ pc' = "loop"
  /\ UNCHANGED <<nevent, file_events, moved, epoll, file, ready, opens, at, told, spoiled>>

\* The pointer to the entry of the table is taken once for both callbacks.
Event == file_events[at.fd]

next_fired ==
  /\ pc = "loop" /\ fired # <<>>
  /\ LET f == Head(fired)
         reads == "READABLE" \in f.mask \cap file_events[f.fd].mask
     IN  /\ at' = [fd |-> f.fd, mask |-> f.mask, rfired |-> reads, moved |-> moved]
         /\ pc' = IF reads THEN "reading" ELSE "read"
         /\ told' = IF reads THEN [told EXCEPT ![f.fd] = @ \cup ({"READABLE"} \cap ready[f.fd])] ELSE told
  /\ fired' = Tail(fired)
  /\ UNCHANGED <<nevent, file_events, moved, kernel, spoiled>>

read_returns ==
  /\ pc = "reading" /\ pc' = "read"
  /\ UNCHANGED <<nevent, file_events, moved, kernel, fired, at, told, spoiled>>

\* Mutant: a descriptor is served once.
Writes_unless_read == "WRITABLE" \in at.mask \cap Event.mask /\ ~at.rfired

SameHandler == Event.read_cb = Event.write_cb

\* A handler that is there for both has already been called.
Writes ==
  /\ "WRITABLE" \in at.mask \cap Event.mask
  /\ ~at.rfired \/ ~SameHandler

write_if_fired ==
  /\ pc = "read" /\ (moved = at.moved \/ ~at.rfired)
  /\ pc' = IF Writes THEN "writing" ELSE "loop"
  /\ at' = IF Writes THEN at ELSE Nothing
  /\ told' = IF Writes \/ (at.rfired /\ SameHandler)
             THEN [told EXCEPT ![at.fd] = @ \cup (at.mask \cap Event.mask \cap ready[at.fd])] ELSE told
  /\ UNCHANGED <<nevent, file_events, moved, kernel, fired, spoiled>>

\* read_cb has made the table grow: the pointer is into freed memory, and what is
\* read there may make it call anything or nothing.
write_if_fired_dangling ==
  /\ pc = "read" /\ moved # at.moved /\ at.rfired
  /\ pc' \in {"loop", "aborted"} /\ at' = Nothing
  /\ spoiled' = spoiled \cup {at.fd}
  /\ UNCHANGED <<nevent, file_events, moved, kernel, fired, told>>

write_returns ==
  /\ pc = "writing" /\ pc' = "loop" /\ at' = Nothing
  /\ UNCHANGED <<nevent, file_events, moved, kernel, fired, told, spoiled>>

all_fired ==
  /\ pc = "loop" /\ fired = <<>>
  /\ pc' = "idle"
  /\ UNCHANGED <<nevent, file_events, moved, kernel, fired, at, told, spoiled>>

-------------------------------------------------------------------------------
Init ==
  /\ nevent = InitEventNumber /\ moved = 0
  /\ file_events = [fd \in Fds |-> Empty]
  /\ epoll = [fd \in Fds |-> Unregistered] /\ edge = [fd \in Fds |-> {}]
  /\ file = [fd \in Fds |-> 0] /\ ready = [fd \in Fds |-> {}] /\ opens = 0
  /\ fired = <<>> /\ pc = "idle" /\ at = Nothing
  /\ told = [fd \in Fds |-> {}] /\ spoiled = {}

\* A connection waits to be read with read_handler, and to be written with
\* write_handler or, until it is connected, with read_handler.
Users ==
  \E fd \in Fds :
    \/ open(fd) \/ shutdown_socket(fd) \/ drop(fd)
    \/ \E h \in Handlers : \E e \in Events :
         /\ h = "write_handler" => e = "WRITABLE"
         /\ create_file_event(fd, {e}, [of |-> file[fd], handler |-> h])
    \/ delete_file_event(fd, {"WRITABLE"}) \/ delete_file_event(fd, Events)
    \/ \E e \in Events : arrives(fd, e) \/ consume(fd, e)

process_events ==
  \/ event_wait \/ next_fired \/ read_returns
  \/ write_if_fired \/ write_if_fired_dangling \/ write_returns \/ all_fired

Next == Users \/ process_events

Spec == Init /\ [][Next]_vars

-------------------------------------------------------------------------------
(* Properties, of every descriptor the table has not been made wrong about: by     *)
(* closing a file without deleting its events, or by the dangling pointer.         *)

\* The table and the epoll set agree, and there is a callback of the file's present
\* owner for what is registered and none for what is not: a number that is used
\* again inherits nothing.
TablesAgree ==
  \A fd \in Fds \ spoiled :
    LET event == file_events[fd]
    IN  /\ epoll[fd].mask = event.mask
        /\ event.read_cb.of = IF "READABLE" \in event.mask THEN file[fd] ELSE 0
        /\ event.write_cb.of = IF "WRITABLE" \in event.mask THEN file[fd] ELSE 0

\* What is registered and ready will be reported, or has been and the loop is going
\* to call its handler, or the handler was called since it became ready. Epoll says
\* it only once, whatever the callbacks of the same round delete and create.
NoLostEdge ==
  \A fd \in Fds \ spoiled : \A e \in file_events[fd].mask \cap ready[fd] :
    \/ e \in edge[fd] \/ ~epoll[fd].et
    \/ \E i \in DOMAIN fired : fired[i].fd = fd /\ e \in fired[i].mask
    \/ at.fd = fd /\ e \in at.mask /\ pc \in {"reading", "read"}
    \/ e \in told[fd]
    \/ pc \in {"aborted", "overrun"}

\* The table covers the descriptors it is used for, and two assertions fail in two
\* cases only: in _get_file_event for a descriptor equal to the size the table grows
\* to, and "BUG!" (the driver is not to fail) for one the table is wrong about.
AssertionsHold ==
  /\ \A fd \in Fds : fd >= nevent => file_events[fd] = Empty
  /\ pc = "overrun" => nevent \in Fds /\ moved > 0
  /\ pc = "aborted" => spoiled # {}
=============================================================================
