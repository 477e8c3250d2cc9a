----------------------------- MODULE AccessWord -----------------------------
(***************************************************************************)
(* The 24 bits of the lru field as the policies of stock Redis use them:   *)
(* a time in minutes and a logarithmic counter for LFU (evict.c:464-552).  *)
(* Here the time is taken modulo Minutes and the counter ends at MaxCount. *)
(***************************************************************************)
EXTENDS Integers

CONSTANTS Minutes,    \* 65536, the minutes the field can tell apart
          MaxCount    \* 255

ASSUME AccessWordAssumption == /\ Minutes \in Nat \ {0, 1}
                               /\ MaxCount \in Nat

\* LFUGetTimeInMinutes(), and the field with its two parts
LfuTime(unixminutes) == unixminutes % Minutes
Word(time, count) == [time |-> time, count |-> count]

\* Mutant of LfuElapsed: no wrap.
LfuElapsedNoWrap(now, ldt) == now - ldt

\* LFUTimeElapsed(): 65535 - ldt + now when the time has wrapped.
LfuElapsed(now, ldt) == IF now >= ldt THEN now - ldt ELSE Minutes - 1 - ldt + now

\* LFUDecrAndReturn()
Decayed(w, now, decay) ==
  LET periods == IF decay = 0 THEN 0 ELSE LfuElapsed(now, w.time) \div decay
  IN IF periods > w.count THEN 0 ELSE w.count - periods

\* LFULogIncr(): the outcomes of its random draw.  Whatever LFU_INIT_VAL and
\* lfu_log_factor make of p, a number in (0, 1], a draw of 0 is below it and a
\* draw of 1, rand() = RAND_MAX, is not.
LogIncr(count) == IF count = MaxCount THEN {MaxCount} ELSE {count, count + 1}

\* updateLFU()
Accessed(w, now, decay) == {Word(now, c) : c \in LogIncr(Decayed(w, now, decay))}

=============================================================================
