----------------------------- MODULE TasMetering -----------------------------
(***************************************************************************)
(* The metering of gate appointments (gateway/crosstwin.py, the windows of *)
(* gateway/tas_mock.py and gateway/routers/rms_tas.py).  The other twin    *)
(* asks for a window; the gateway keeps a ring of windows in memory, which *)
(* the guard of a booking counts in, and a row of each, from which it      *)
(* restores the ring when it starts.  A redelivered window comes with the  *)
(* contents it had.  The mock slots, the pushes to drivers, and CLOSED and *)
(* FULL, which no rule reads or no code sets, are left out.                *)
(***************************************************************************)
EXTENDS Naturals, Sequences, FiniteSets

CONSTANTS
  Meter,       \* the correlation ids of the windows
  SlotCode,    \* the appointments
  Truck,       \* a truck books one appointment
  SlotOf,      \* the appointment it asks for
  Covers,      \* the appointments inside a window
  SlotCap,     \* the bookings a window lets pass
  Capacities,  \* those a seed or a sync may give to an appointment
  MaxWindows,  \* _MAX_WINDOWS
  MaxRestarts, \* bound
  Nothing

ASSUME MeteringAssumption ==
  /\ IsFiniteSet(Truck) /\ SlotOf \in [Truck -> SlotCode]
  /\ Covers \in [Meter -> SUBSET SlotCode] /\ SlotCap \in [Meter -> Nat]
  /\ Capacities \subseteq Nat /\ MaxWindows \in Nat \ {0} /\ MaxRestarts \in Nat
  /\ Nothing \notin Meter \union [capacity : Capacities, booked : Nat]

VARIABLES
  gateway,     \* starting, restoring (the rows are read), seating them, or serving
  windows,     \* _WINDOWS, the newest last
  fetched,     \* the rows a restore has yet to seat
  rows,        \* core.deferred_arrival_window, in order of received_at
  saving,      \* the upserts under way
  appointment, \* core.tas_appointment
  request,     \* the request of each truck, the window it used, its core.tas_booking
  restarts,
  older,       \* history: pairs of windows of which the first came before the second
  lost,        \* history: trucks whose booking was not counted in the row
  forgotten,   \* history: windows dropped from the ring, or not read back
  overtaken,   \* history: a window came before the restore was over
  revived,     \* history: appointments of which a cancelled booking came back
  lowered      \* history: appointments cut below what was booked

meteringVars == <<gateway, windows, fetched, rows, saving, appointment, request,
                  restarts, older, lost, forgotten, overtaken, revived, lowered>>
history == <<older, lost, forgotten, overtaken, revived, lowered>>

Ids(ring) == {ring[i].id : i \in DOMAIN ring}
Newest(ring) == SubSeq(ring, IF Len(ring) > MaxWindows THEN Len(ring) - MaxWindows + 1 ELSE 1,
                       Len(ring))

MeteringInit ==
  /\ gateway = "starting" /\ restarts = 0
  /\ windows = <<>> /\ fetched = <<>> /\ rows = <<>> /\ saving = {}
  /\ appointment = [s \in SlotCode |-> Nothing]
  /\ request = [t \in Truck |-> [pc |-> "new", meter |-> Nothing, status |-> "none"]]
  /\ older = {} /\ lost = {} /\ forgotten = {} /\ overtaken = FALSE
  /\ revived = {} /\ lowered = {}

-----------------------------------------------------------------------------
(* A window comes, over Kafka or HTTP. *)

\* Kept at its place if it is in the ring, else seated last.
Seated(ring, w) ==
  IF w.id \in Ids(ring)
    THEN [i \in DOMAIN ring |-> IF ring[i].id = w.id THEN w ELSE ring[i]]
    ELSE Newest(Append(ring, w))

\* A window that was not in the ring counts as come now.
CameLast(m) == {p \in older : m \notin {p[1], p[2]}} \union ((Meter \ {m}) \X {m})

\* apply_deferred_window: the count of a window that is there goes on.
Apply(m) ==
  LET booked == IF m \in Ids(windows)
                  THEN windows[CHOOSE i \in DOMAIN windows : windows[i].id = m].booked
                  ELSE 0
      w == [id |-> m, booked |-> booked]
  IN /\ gateway # "seating"
     /\ windows' = Seated(windows, w)
     /\ saving' = saving \union {w}
     /\ forgotten' = forgotten \union (Ids(windows) \ Ids(windows'))
     /\ older' = IF m \in Ids(windows) THEN older ELSE CameLast(m)
     /\ overtaken' = (overtaken \/ gateway # "serving")
     /\ UNCHANGED <<gateway, fetched, rows, appointment, request, restarts, lost,
                    revived, lowered>>

\* Faulty variant: the row takes the count that comes with the window.
UpsertedOver(w) ==
  IF w.id \in Ids(rows)
    THEN [i \in DOMAIN rows |-> IF rows[i].id = w.id THEN w ELSE rows[i]]
    ELSE Append(rows, w)

\* ON CONFLICT: GREATEST of the counts; received_at stays.
Upserted(w) ==
  IF w.id \in Ids(rows)
    THEN [i \in DOMAIN rows |-> IF rows[i].id = w.id /\ rows[i].booked < w.booked
                                THEN w ELSE rows[i]]
    ELSE Append(rows, w)

\* The row is written some time after the window is in force, or not at all.
PersistWindow(w) ==
  /\ saving' = saving \ {w}
  /\ rows' = Upserted(w) \/ UNCHANGED rows
  /\ UNCHANGED <<gateway, windows, fetched, appointment, request, restarts, history>>

-----------------------------------------------------------------------------
(* A restart.  Kafka windows may come while the rows are being read. *)

InFlight(t) == request[t].pc \in {"passed", "booked"}

Crash ==
  /\ restarts < MaxRestarts /\ restarts' = restarts + 1
  /\ gateway' = "starting" /\ windows' = <<>> /\ fetched' = <<>> /\ saving' = {}
  /\ request' = [t \in Truck |-> IF InFlight(t) THEN [request[t] EXCEPT !.pc = "done"]
                                 ELSE request[t]]
  /\ lost' = lost \union {t \in Truck : request[t].pc = "booked"}
  /\ UNCHANGED <<rows, appointment, older, forgotten, overtaken, revived, lowered>>

\* recent(): a read that fails is an empty one.
RestoreRead ==
  /\ gateway = "starting" /\ gateway' = "restoring"
  /\ fetched' \in {Newest(rows), <<>>}
  /\ forgotten' = forgotten \union (Ids(rows) \ Ids(fetched'))
  /\ UNCHANGED <<windows, rows, saving, appointment, request, restarts, older, lost,
                 overtaken, revived, lowered>>

\* Faulty variant: in the order of the query, newest first.
NextFetchedNewest == Len(fetched)

\* The oldest first.
NextFetched == 1

\* The rows are seated one by one, and nothing comes in between.
SeatFetched ==
  /\ gateway \in {"restoring", "seating"} /\ gateway' = "seating"
  /\ fetched # <<>>
  /\ windows' = Seated(windows, fetched[NextFetched])
  /\ fetched' = [i \in 1 .. Len(fetched) - 1 |->
                   IF i < NextFetched THEN fetched[i] ELSE fetched[i + 1]]
  /\ forgotten' = forgotten \union (Ids(windows) \ Ids(windows'))
  /\ UNCHANGED <<rows, saving, appointment, request, restarts, older, lost,
                 overtaken, revived, lowered>>

Restored ==
  /\ gateway \in {"restoring", "seating"} /\ gateway' = "serving"
  /\ fetched = <<>>
  /\ UNCHANGED <<windows, fetched, rows, saving, appointment, request, restarts, history>>

-----------------------------------------------------------------------------
(* A booking: the guard, the transaction, the row of the window. *)

Governs(i, s) ==
  /\ s \in Covers[windows[i].id]
  /\ \A j \in DOMAIN windows : s \in Covers[windows[j].id] => j <= i

Unmetered(s) == \A i \in DOMAIN windows : s \notin Covers[windows[i].id]

CapLeaves(w) == w.booked < SlotCap[w.id]

\* _deferred_window_guard; a truck it refuses may try again.
PassGuard(t) ==
  /\ gateway = "serving" /\ request[t].pc = "new"
  /\ \/ /\ Unmetered(SlotOf[t])
        /\ request' = [request EXCEPT ![t].pc = "passed"]
        /\ UNCHANGED windows
     \/ \E i \in DOMAIN windows :
          /\ Governs(i, SlotOf[t]) /\ CapLeaves(windows[i])
          /\ windows' = [windows EXCEPT ![i].booked = @ + 1]
          /\ request' = [request EXCEPT ![t].pc = "passed", ![t].meter = windows[i].id]
  /\ UNCHANGED <<gateway, fetched, rows, saving, appointment, restarts, history>>

\* Under the lock of the appointment.
Book(t) ==
  LET s == SlotOf[t] IN
  /\ request[t].pc = "passed"
  /\ appointment[s] # Nothing /\ appointment[s].booked < appointment[s].capacity
  /\ appointment' = [appointment EXCEPT ![s].booked = @ + 1]
  /\ request' = [request EXCEPT ![t].pc = IF request[t].meter = Nothing THEN "done" ELSE "booked",
                                ![t].status = "BOOKED"]
  /\ UNCHANGED <<gateway, windows, fetched, rows, saving, restarts, history>>

\* slot_not_found, slot_full, or the database fails: what the guard has counted
\* stays counted.
BookingFails(t) ==
  /\ request[t].pc = "passed"
  /\ request' = [request EXCEPT ![t].pc = "done"]
  /\ UNCHANGED <<gateway, windows, fetched, rows, saving, appointment, restarts, history>>

\* bump_booked: an UPDATE, of no row if the window was never saved.
BumpBooked(t) ==
  /\ request[t].pc = "booked"
  /\ request' = [request EXCEPT ![t].pc = "done"]
  /\ \/ /\ request[t].meter \in Ids(rows)
        /\ rows' = [i \in DOMAIN rows |-> IF rows[i].id = request[t].meter
                                          THEN [rows[i] EXCEPT !.booked = @ + 1]
                                          ELSE rows[i]]
        /\ UNCHANGED lost
     \/ lost' = lost \union {t} /\ UNCHANGED rows
  /\ UNCHANGED <<gateway, windows, fetched, saving, appointment, restarts, older,
                 forgotten, overtaken, revived, lowered>>

-----------------------------------------------------------------------------
\* Faulty variant: every CANCELLED frees a seat.
FreesAlways(old, new) == new = "CANCELLED"

Frees(old, new) == new = "CANCELLED" /\ old # "CANCELLED"

\* COMPLETED stands for NO_SHOW as well.
SetStatus(t, new) ==
  LET s == SlotOf[t]
      old == request[t].status
  IN /\ gateway = "serving" /\ old # "none"
     /\ request' = [request EXCEPT ![t].status = new]
     /\ appointment' = IF Frees(old, new) /\ appointment[s].booked > 0
                         THEN [appointment EXCEPT ![s].booked = @ - 1]
                         ELSE appointment
     /\ revived' = IF old = "CANCELLED" /\ new # "CANCELLED" THEN revived \union {s}
                     ELSE revived
     /\ UNCHANGED <<gateway, windows, fetched, rows, saving, restarts, older, lost,
                    forgotten, overtaken, lowered>>

\* Seeding keeps an appointment that is there; a sync changes its capacity.
SeedSlot(s, capacity) ==
  /\ gateway = "serving" /\ appointment[s] = Nothing
  /\ appointment' = [appointment EXCEPT ![s] = [capacity |-> capacity, booked |-> 0]]
  /\ UNCHANGED <<gateway, windows, fetched, rows, saving, request, restarts, history>>

SyncSlot(s, capacity) ==
  /\ gateway = "serving" /\ appointment[s] # Nothing
  /\ appointment' = [appointment EXCEPT ![s].capacity = capacity]
  /\ lowered' = IF capacity < appointment[s].booked THEN lowered \union {s} ELSE lowered
  /\ UNCHANGED <<gateway, windows, fetched, rows, saving, request, restarts, older,
                 lost, forgotten, overtaken, revived>>

WindowNext ==
  \/ \E m \in Meter : Apply(m)
  \/ \E w \in saving : PersistWindow(w)
  \/ Crash \/ RestoreRead \/ SeatFetched \/ Restored

BookingNext ==
  \E t \in Truck : PassGuard(t) \/ Book(t) \/ BookingFails(t) \/ BumpBooked(t)

AppointmentNext ==
  \/ \E t \in Truck, new \in {"BOOKED", "CANCELLED", "COMPLETED"} : SetStatus(t, new)
  \/ \E s \in SlotCode, capacity \in Capacities :
       SeedSlot(s, capacity) \/ SyncSlot(s, capacity)

MeteringNext == WindowNext \/ BookingNext \/ AppointmentNext

MeteringSpec == MeteringInit /\ [][MeteringNext]_meteringVars

-----------------------------------------------------------------------------
Counted == [id : Meter, booked : Nat]

MeteringTypeOK ==
  /\ gateway \in {"starting", "restoring", "seating", "serving"} /\ restarts \in 0 .. MaxRestarts
  /\ windows \in Seq(Counted) /\ fetched \in Seq(Counted) /\ rows \in Seq(Counted)
  /\ saving \subseteq Counted
  /\ appointment \in [SlotCode -> [capacity : Capacities, booked : Nat] \union {Nothing}]
  /\ request \in [Truck -> [pc : {"new", "passed", "booked", "done"},
                            meter : Meter \union {Nothing},
                            status : {"none", "BOOKED", "CANCELLED", "COMPLETED"}]]
  /\ older \subseteq Meter \X Meter /\ lost \subseteq Truck /\ forgotten \subseteq Meter
  /\ overtaken \in BOOLEAN /\ revived \subseteq SlotCode /\ lowered \subseteq SlotCode

\* The trucks that took an appointment inside a window.
Metered(m) == {t \in Truck : request[t].meter = m /\ request[t].status # "none"}

\* "max new bookings inside the window", over restarts: a window that was not
\* forgotten lets no more through than its cap and the bookings whose count was
\* lost on the way to its row.
CapIsKept ==
  \A m \in Meter \ forgotten : Cardinality(Metered(m) \ lost) <= SlotCap[m]

InOrder(ring) ==
  \A i, j \in DOMAIN ring : i < j => <<ring[i].id, ring[j].id>> \in older

\* "a restart [no longer] dropped every consumed UC-II window": a window with a
\* row is in force again, and the newest is still the last, unless the rows were
\* written out of order or a window came before the restore was over.
MetersSurviveRestarts ==
  /\ gateway = "serving" => Ids(rows) \ forgotten \subseteq Ids(windows)
  /\ ~overtaken /\ InOrder(rows) => InOrder(windows)

\* An appointment holds as many bookings as it counts and no more than its
\* capacity, unless one that was cancelled has been set back, for which no seat
\* is taken, or the capacity was cut.
SeatsAreCounted ==
  \A s \in SlotCode \ revived : appointment[s] # Nothing =>
    /\ appointment[s].booked = Cardinality({t \in Truck :
         SlotOf[t] = s /\ request[t].status \in {"BOOKED", "COMPLETED"}})
    /\ s \in lowered \/ appointment[s].booked <= appointment[s].capacity
=============================================================================
