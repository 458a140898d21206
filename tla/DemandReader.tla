---------------------------- MODULE DemandReader ---------------------------
(* The asynchronous seek reader's driving loop (async_seek.rs) and its twin  *)
(* over range sources (async_range.rs).  A synchronous parser runs over     *)
(* cached ranges only; a miss records a demand and fails the parser with    *)
(* WouldBlock; the adapter fetches the range, caches it and runs the parser *)
(* again from the start of the command.  The parser is a script: the reads  *)
(* it would make, each a position and a length.  The future may be dropped  *)
(* at any await and the command issued again.                               *)
EXTENDS DemandCache, Sequences

CONSTANTS
    InputLen,     \* length of the input
    Scripts,      \* the reads a parser command may make
    None

VARIABLES
    cache, cached_bytes,
    demand,       \* the range the parser stopped at, or None
    script, step, \* the running command and its next read
    phase,        \* "Idle", "Parse", "Demand", "Fetch"
    offset, wanted, filled, \* the fetch in progress
    stopped,      \* the read of this command that last missed
    result        \* how the last command ended

vars == <<cache, cached_bytes, demand, script, step, phase, offset, wanted, filled,
          stopped, result>>
held == <<cache, cached_bytes>>
fetch == <<offset, wanted, filled>>

Init ==
    /\ cache = EmptyCache /\ cached_bytes = 0
    /\ demand = None
    /\ script = << >> /\ step = 1
    /\ phase = "Idle"
    /\ offset = 0 /\ wanted = 0 /\ filled = 0
    /\ stopped = 0
    /\ result = "None"

(* A public command: next_event, skip_entry, or the parse of the open loop. *)
Begin(s) ==
    /\ phase = "Idle"
    /\ script' = s /\ UNCHANGED <<step, stopped>>
    /\ phase' = "Parse"
    /\ result' = "None"
    /\ UNCHANGED <<held, demand, fetch>>

(* Over a range source the command is refused at once when the source has   *)
(* become another object (validate_source).                                 *)
BeginRefused == phase = "Idle" /\ result' = "Err"
    /\ UNCHANGED <<held, demand, script, step, phase, fetch, stopped>>

Position == script[step][1]
Wants == Available(InputLen, script[step][1], script[step][2])

(* Read::read of the demand reader: end of input, a cached range, or a miss. *)
ReadCached ==
    /\ phase = "Parse" /\ step <= Len(script)
    /\ Wants = 0 \/ Hit(cache, Position, Wants)
    /\ step' = step + 1
    /\ UNCHANGED <<held, demand, script, phase, fetch, stopped, result>>

ReadMiss ==
    /\ phase = "Parse" /\ step <= Len(script)
    /\ Wants # 0 /\ ~Hit(cache, Position, Wants)
    /\ demand' = <<Position, Wants>>
    /\ stopped' = step
    /\ phase' = "Demand"
    /\ UNCHANGED <<held, script, step, fetch, result>>

(* A command returns, with its local state gone. *)
Return(r) ==
    /\ phase' = "Idle" /\ result' = r
    /\ script' = << >> /\ step' = 1 /\ stopped' = 0
    /\ offset' = 0 /\ wanted' = 0 /\ filled' = 0

(* The command is complete: the cache is emptied before it returns.  A range *)
(* source is validated once more, and its parse dropped when that fails.    *)
Complete ==
    /\ phase = "Parse" /\ step > Len(script)
    /\ cache' = EmptyCache /\ cached_bytes' = 0 /\ demand' = None
    /\ Return("Done") \/ Return("Err")

(* fulfill: take_fetch_request refuses a request larger than the budget. *)
TakeRequest ==
    /\ phase = "Demand"
    /\ demand' = None
    /\ UNCHANGED held
    /\ \/ demand[2] > CacheLimit /\ Return("Err")
       \/ /\ demand[2] <= CacheLimit
          /\ offset' = demand[1]
          /\ wanted' = FetchLength(InputLen, demand[1], demand[2])
          /\ filled' = 0
          /\ phase' = "Fetch"
          /\ UNCHANGED <<script, step, stopped, result>>

(* One awaited read of the input; it may also fail or end early, which      *)
(* ends the command with the cache kept.                                    *)
Receive(k) ==
    /\ phase = "Fetch" /\ filled < wanted
    /\ filled' = filled + k
    /\ UNCHANGED <<held, demand, script, step, phase, offset, wanted, stopped, result>>

InputFails ==
    /\ phase = "Fetch" /\ filled < wanted
    /\ Return("Err")
    /\ UNCHANGED <<held, demand>>

(* The future is dropped while the input is awaited. *)
Cancel ==
    /\ phase = "Fetch" /\ filled < wanted
    /\ Return("Cancelled")
    /\ UNCHANGED <<held, demand>>

(* insert: the accounting replaces a chunk that starts at the same offset. *)
HeldAfterUnreplaced(n) == cached_bytes + n
HeldAfter(n) == cached_bytes - Replaced(cache, offset) + n
Insert ==
    /\ phase = "Fetch" /\ filled = wanted
    /\ UNCHANGED demand
    /\ \/ HeldAfter(wanted) > CacheLimit /\ Return("Err") /\ UNCHANGED held
       \/ /\ HeldAfter(wanted) <= CacheLimit
          /\ cache' = Inserted(cache, offset, wanted)
          /\ cached_bytes' = HeldAfter(wanted)
          /\ phase' = "Parse" /\ step' = 1
          /\ UNCHANGED <<script, fetch, stopped, result>>

Progress ==
    \/ ReadCached \/ ReadMiss \/ Complete \/ TakeRequest \/ Insert \/ InputFails
    \/ \E k \in 1..(wanted - filled) : Receive(k)
Next == Progress \/ Cancel \/ BeginRefused \/ \E s \in Scripts : Begin(s)

(* The executor polls a running command and the input answers. *)
Spec == Init /\ [][Next]_vars /\ WF_vars(Progress)
-----------------------------------------------------------------------------

(* The incremental accounting is exact and within the metadata budget, also *)
(* when a longer chunk replaces one at the same offset, a fetch fails or is *)
(* cancelled, or a command fails with its cache kept.                       *)
CacheAccounted ==
    /\ cached_bytes = Held(cache)
    /\ cached_bytes <= CacheLimit

(* Inserting a fetched chunk never turns a range that could be read from    *)
(* the cache into a miss, although lookups see only the nearest chunk and   *)
(* the new one may hide a longer one: the parser's replay cannot regress.   *)
HitsPersist ==
    cache' # cache /\ cache' # EmptyCache =>
        \A p \in 0..InputLen, a \in 1..InputLen : Hit(cache, p, a) => Hit(cache', p, a)

(* A command that is not dropped again and again returns.                   *)
CommandsEnd == phase # "Idle" ~> phase = "Idle"
=============================================================================
