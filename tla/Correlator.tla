----------------------------- MODULE Correlator -----------------------------
(***************************************************************************)
(* The correlator of one gate (ingest/rfid/correlator.py): every plate     *)
(* read and every tag read is buffered for a window, and each arrival      *)
(* pairs the buffered reads anew, the nearest in event time first.  A gate *)
(* has its own buffers, and the lock makes an arrival one step.  The ids   *)
(* of the reads number their arrivals: a buffer is a set of reads in the   *)
(* order of their ids.  Kafka, metrics and the resolution of cameras and   *)
(* readers to gates are left out; a restart forgets everything, which is   *)
(* how the module begins.                                                  *)
(***************************************************************************)
EXTENDS Integers

CONSTANTS
  Plate, Tag,
  Window,      \* correlation_window_s, in ticks
  MaxDelay,    \* bound on how long a read is under way
  MaxReads,    \* bound on the reads of each kind
  MaxNow       \* bound on the clock

ASSUME CorrelatorBoundsAssumption ==
  Window \in Nat \ {0} /\ MaxDelay \in Nat /\ MaxReads \in Nat /\ MaxNow \in Nat

VARIABLES
  now,         \* whole ticks; a handler buffers at the tick and matches just after
  plates, tags,\* the buffers of the gate
  emitted,     \* when each pair of values was last confirmed
  arrived,     \* history: the reads of each kind so far
  events       \* history: the confirmations, as pairs of reads

correlatorVars == <<now, plates, tags, emitted, arrived, events>>

Never == -1

CorrelatorInit ==
  /\ now = 0 /\ plates = {} /\ tags = {}
  /\ emitted = [k \in Plate \X Tag |-> Never]
  /\ arrived = [kind \in {"plate", "tag"} |-> 0] /\ events = {}

\* Between two ticks: time.monotonic() in _match comes after that of the read.
Buffered == 2 * now
Moment == 2 * now + 1

-----------------------------------------------------------------------------
Alive(read) == Moment - read.mono <= 2 * Window

\* popleft while the oldest is out of the window: a buffer is in the order of mono.
Expired(buffer) == {read \in buffer : Alive(read)}

Apart(p, t) == IF p.ts < t.ts THEN t.ts - p.ts ELSE p.ts - t.ts

\* Faulty variant: the window is open at its end.
Closer(p, t) == Apart(p, t) < Window

Close(p, t) == Apart(p, t) <= Window

\* The pairs of reads within the window, and their order: nearest in time first,
\* and, the sort being stable, the earlier plate and then the earlier tag.
Candidates(ps, ts) == {c \in ps \X ts : Close(c[1], c[2])}

Nearer(c, d) ==
  LET dc == Apart(c[1], c[2])
      dd == Apart(d[1], d[2])
  IN \/ dc < dd
     \/ dc = dd /\ (c[1].id < d[1].id \/ (c[1].id = d[1].id /\ c[2].id < d[2].id))

Share(c, d) == c[1] = d[1] \/ c[2] = d[2]

\* The greedy pass: a candidate is taken unless a nearer one used up its plate
\* read or its tag read.
Consumed(close) ==
  CHOOSE used \in SUBSET close :
    \A c \in close : c \in used <=> ~\E d \in used : Nearer(d, c) /\ Share(d, c)

Suppressed(last) == last # Never /\ Moment - last < 2 * Window

Key(c) == <<c[1].value, c[2].value>>

\* A suppressed pair uses its reads up all the same, and the first of several
\* pairs with the same values suppresses the others.
Confirmed(used) ==
  {c \in used : /\ ~Suppressed(emitted[Key(c)])
                /\ \A d \in used : Key(d) = Key(c) => ~Nearer(d, c)}

\* _match; a buffer is expired whether or not the other one is empty.
Match(ps, ts) ==
  LET confirmed == Confirmed(Consumed(Candidates(Expired(ps), Expired(ts)))) IN
    /\ plates' = Expired(ps) /\ tags' = Expired(ts)
    /\ emitted' = [k \in Plate \X Tag |->
                     IF \E c \in confirmed : Key(c) = k THEN Moment ELSE emitted[k]]
    /\ events' = events \union {[plate |-> c[1], tag |-> c[2], at |-> Moment] : c \in confirmed}

ReadOf(kind, value, delay) ==
  [id |-> arrived[kind] + 1, value |-> value, mono |-> Buffered, ts |-> now - delay]

Arrives(kind) ==
  /\ arrived[kind] < MaxReads
  /\ arrived' = [arrived EXCEPT ![kind] = @ + 1]
  /\ UNCHANGED now

\* _on_anpr and _on_rfid, each run by the thread of its topic under the lock.
OnAnpr(v, delay) ==
  Arrives("plate") /\ Match(plates \union {ReadOf("plate", v, delay)}, tags)
OnRfid(v, delay) ==
  Arrives("tag") /\ Match(plates, tags \union {ReadOf("tag", v, delay)})

\* Faulty variant: a pair is forgotten before its reads are.
StaleSoon(last) == last # Never /\ 2 * (Moment - last) > Window

\* Four windows.
Stale(last) == last # Never /\ Moment - last > 8 * Window

GcEmitted ==
  /\ emitted' = [k \in Plate \X Tag |-> IF Stale(emitted[k]) THEN Never ELSE emitted[k]]
  /\ UNCHANGED <<now, plates, tags, arrived, events>>

Tick ==
  /\ now < MaxNow /\ now' = now + 1
  /\ UNCHANGED <<plates, tags, emitted, arrived, events>>

CorrelatorNext ==
  \/ \E delay \in 0 .. MaxDelay :
       \/ \E v \in Plate : OnAnpr(v, delay)
       \/ \E v \in Tag : OnRfid(v, delay)
  \/ GcEmitted \/ Tick

CorrelatorSpec == CorrelatorInit /\ [][CorrelatorNext]_correlatorVars

-----------------------------------------------------------------------------
Read(kind, values) ==
  [id : 1 .. arrived[kind], value : values, mono : 0 .. Buffered, ts : -MaxDelay .. now]

CorrelatorTypeOK ==
  /\ now \in 0 .. MaxNow /\ arrived \in [{"plate", "tag"} -> 0 .. MaxReads]
  /\ plates \in SUBSET Read("plate", Plate) /\ tags \in SUBSET Read("tag", Tag)
  /\ emitted \in [Plate \X Tag -> {Never} \union 0 .. Moment]
  /\ events \in SUBSET [plate : Read("plate", Plate), tag : Read("tag", Tag), at : 0 .. Moment]

\* The reads stay in the buffers after they are paired and are paired again at
\* every arrival, yet no two reads are confirmed with each other a second time.
SamePairOnce ==
  \A e, f \in events : e.plate.id = f.plate.id /\ e.tag.id = f.tag.id => e = f

\* Nobody waits at the barrier beside a partner: when a plate and a tag within
\* the window stand in the buffers, one of the two has been confirmed.
NoReadsLeftOver ==
  \A p \in plates, t \in tags :
    Apart(p, t) <= Window =>
      \E e \in events : e.plate.value = p.value \/ e.tag.value = t.value

\* "consume both, so a given read confirms at most once".
ReadConfirmsOnce ==
  \A e, f \in events : e.plate.id = f.plate.id \/ e.tag.id = f.tag.id => e = f
=============================================================================
