------------------------------ MODULE Database ------------------------------
(***************************************************************************)
(* Requests of the platform that read a row, await, and then write it: the *)
(* names of BLE devices, the locks of pins, and the custom commands with   *)
(* their executions (api/ble.py, api/pins.py, api/custom_cmd.py, db/crud,  *)
(* cmd_executor, and _remember_ble_devices of main.py).                    *)
(*                                                                         *)
(* Every request has a session of its own; a SELECT and a commit are its   *)
(* awaits, and between them the others run.  The library (SQLAlchemy on    *)
(* SQLite) is modelled from how it is used: a session keeps the object it  *)
(* has read of a row (expire_on_commit=False) and a commit writes only the *)
(* columns whose value differs from the one read; the update of a row that *)
(* is gone and the insertion of one that is there fail, with everything    *)
(* else in that commit; the deletion of a row that is gone does not.       *)
(***************************************************************************)
EXTENDS Naturals, Sequences, FiniteSets, SequencesExt

CONSTANTS
    Requests,   \* requests, each made at most once
    Menus,      \* sets of operations; those of one are asked for together
    Macs,       \* BLE devices
    Programs,   \* lists of steps a command may have: each step is its on_error
    None        \* no row, no value

\* What a row of the pin may say: its columns mode and value come from requests.
Expected(i) == {None} \union {o.value[i] : o \in {asked \in UNION Menus : asked.do = "expect"}}
PinRow      == [locked : BOOLEAN, mode : Expected(1), value : Expected(2)]

\* A name is given to one device.
ASSUME DatabaseAssumption ==
    /\ Programs \subseteq Seq({"abort", "continue"})
    /\ None \notin Macs \union PinRow
    /\ \A o \in UNION Menus :
         o.macs \subseteq Macs /\ (o.do = "name" => \E m \in Macs : o.macs = {m})

VARIABLES
    menu,       \* the operations of this behaviour
    first,      \* history: the rows at its beginning
    names,      \* BleDeviceName: the name of a device, or None
    pin,        \* the PinLock row of one pin, or None
    cmd,        \* the CustomCommand row of one slug, or None
    logged,     \* ExecutionLog: executions since the command was created
    pc,         \* pc[r]
    op,         \* op[r]: the operation of r
    seen,       \* seen[r]: what its session has read
    at,         \* at[r]: steps executed
    past,       \* past[r]: the requests that had ended when r began
    alone       \* history: no execution overlapped another one, a creation or
                \* a deletion of its command

rows == <<names, pin, cmd, logged>>
databaseVars == <<menu, first, rows, pc, op, seen, at, past, alone>>

Over(r)  == pc[r] \in {"done", "refused", "failed"}
Begun(r) == pc[r] # "idle"

\* Mutant: every column is written.
FlushedWhole(row, read, wanted) == wanted

\* An UPDATE of the columns that changed in a session.
Flushed(row, read, wanted) ==
    [c \in DOMAIN row |-> IF wanted[c] # read[c] THEN wanted[c] ELSE row[c]]

Ends(r, how) ==
    /\ pc' = [pc EXCEPT ![r] = how]
    /\ UNCHANGED <<op, seen, at, past>>

Goes(r, where, read) ==
    /\ pc' = [pc EXCEPT ![r] = where]
    /\ seen' = [seen EXCEPT ![r] = read]
    /\ UNCHANGED <<op, at, past>>

\* Is an execution of the command under way, other than r?
Executing(r) ==
    \E q \in Requests \ {r} : op[q].do = "execute" /\ Begun(q) /\ ~Over(q)

\* Is a request under way that creates, deletes or executes it, other than r?
Touching(r) ==
    \E q \in Requests \ {r} :
        op[q].do \in {"execute", "create", "delete"} /\ Begun(q) /\ ~Over(q)

-----------------------------------------------------------------------------
Begin(r) ==
    /\ pc[r] = "idle"
    /\ \E o \in menu :
        /\ op' = [op EXCEPT ![r] = o]
        /\ pc' = [pc EXCEPT ![r] = IF o.do = "unpair" THEN "bond" ELSE "select"]
        /\ alone' = (alone /\ (o.do = "execute" => ~Touching(r))
                           /\ (o.do \in {"create", "delete"} => ~Executing(r)))
    /\ past' = [past EXCEPT ![r] = {q \in Requests : Over(q)}]
    /\ UNCHANGED <<rows, seen, at>>

-----------------------------------------------------------------------------
(* Names of BLE devices                                                    *)

\* delete_ble_paired_device first deletes the bond on the device.
DeleteBond(r) ==
    /\ pc[r] = "bond"
    /\ Ends(r, "select") \/ Ends(r, "failed")
    /\ UNCHANGED <<rows, alone>>

\* Who gets a name: the device of a request, or the devices of an event.
SelectNames(r) ==
    /\ pc[r] = "select" /\ op[r].do \in {"name", "unname", "unpair", "remember"}
    /\ LET read == [m \in op[r].macs |-> names[m]]
       IN  IF op[r].do \in {"unname", "unpair"} /\ \A m \in op[r].macs : read[m] = None
           THEN Ends(r, "done")
           ELSE Goes(r, "commit", read)
    /\ UNCHANGED <<rows, alone>>

\* set_ble_device_name
CommitName(r) ==
    /\ pc[r] = "commit" /\ op[r].do = "name"
    /\ \E m \in op[r].macs :
         IF (names[m] = None) # (seen[r][m] = None)
         THEN Ends(r, "failed") /\ UNCHANGED names
         ELSE /\ Ends(r, "done")
              /\ names' = [names EXCEPT ![m] =
                              IF op[r].value # seen[r][m] THEN op[r].value ELSE @]
    /\ UNCHANGED <<pin, cmd, logged, alone>>

\* delete_ble_device_name
CommitUnname(r) ==
    /\ pc[r] = "commit" /\ op[r].do \in {"unname", "unpair"}
    /\ names' = [m \in Macs |-> IF m \in op[r].macs THEN None ELSE names[m]]
    /\ Ends(r, "done")
    /\ UNCHANGED <<pin, cmd, logged, alone>>

\* Mutant: the row of a device named meanwhile is overwritten.
CommitRememberOver(r) ==
    /\ pc[r] = "commit" /\ op[r].do = "remember"
    /\ names' = [m \in Macs |-> IF m \in op[r].macs /\ seen[r][m] = None THEN m ELSE names[m]]
    /\ Ends(r, "done")
    /\ UNCHANGED <<pin, cmd, logged, alone>>

\* _remember_ble_devices: the devices without a row get their address for a
\* name, all of them or none.
CommitRemember(r) ==
    /\ pc[r] = "commit" /\ op[r].do = "remember"
    /\ LET new == {m \in op[r].macs : seen[r][m] = None}
       IN  IF \E m \in new : names[m] # None
           THEN Ends(r, "failed") /\ UNCHANGED names
           ELSE /\ Ends(r, "done")
                /\ names' = [m \in Macs |-> IF m \in new THEN m ELSE names[m]]
    /\ UNCHANGED <<pin, cmd, logged, alone>>

-----------------------------------------------------------------------------
(* Locks and expected states of a pin                                      *)

NewPin == [locked |-> FALSE, mode |-> None, value |-> None]

\* What lock_pin, unlock_pin and set_expected_state make of a row.
PinWanted(r, row) ==
    CASE op[r].do = "lock"   -> [row EXCEPT !.locked = TRUE]
      [] op[r].do = "unlock" -> NewPin
      [] op[r].do = "expect" -> [row EXCEPT !.mode = op[r].value[1], !.value = op[r].value[2]]

SelectPin(r) ==
    /\ pc[r] = "select" /\ op[r].do \in {"lock", "unlock", "expect"}
    /\ IF op[r].do = "unlock" /\ pin = None THEN Ends(r, "done") ELSE Goes(r, "commit", pin)
    /\ UNCHANGED <<rows, alone>>

CommitPin(r) ==
    /\ pc[r] = "commit" /\ op[r].do \in {"lock", "unlock", "expect"}
    /\ IF seen[r] = None
       THEN IF pin # None
            THEN Ends(r, "failed") /\ UNCHANGED pin
            ELSE Ends(r, "done") /\ pin' = PinWanted(r, NewPin)
       ELSE Ends(r, "done") /\ pin' = Flushed(pin, seen[r], PinWanted(r, seen[r]))
    /\ UNCHANGED <<names, cmd, logged, alone>>

-----------------------------------------------------------------------------
(* Custom commands                                                         *)

\* get_by_slug, and what follows before the next await.
SelectCommand(r) ==
    /\ pc[r] = "select" /\ op[r].do \in {"create", "update", "delete", "execute"}
    /\ CASE op[r].do = "create" ->
              IF cmd # None THEN Ends(r, "refused") ELSE Goes(r, "commit", None)
         [] op[r].do \in {"update", "delete"} ->
              IF cmd = None THEN Ends(r, "refused") ELSE Goes(r, "commit", cmd)
         [] op[r].do = "execute" ->
              IF cmd = None \/ ~cmd.enabled THEN Ends(r, "refused") ELSE Goes(r, "step", cmd)
    /\ UNCHANGED <<rows, alone>>

\* create_command.  The table gives a new row the number after the greatest,
\* which may be that of the row deleted last.
CommitCreate(r) ==
    /\ pc[r] = "commit" /\ op[r].do = "create"
    /\ IF cmd # None
       THEN Ends(r, "failed") /\ UNCHANGED <<cmd, logged>>
       ELSE /\ Ends(r, "done")
            /\ \E id \in {1, 2} :
                 cmd' = [id |-> id, enabled |-> TRUE, steps |-> op[r].value, count |-> 0]
            /\ logged' = 0
    /\ UNCHANGED <<names, pin, alone>>

\* Is the row r has read still in the table, or one that got its number?
SameRow(row) == cmd # None /\ cmd.id = row.id

\* update_command, of the steps and of enabled.
CommitUpdate(r) ==
    /\ pc[r] = "commit" /\ op[r].do = "update"
    /\ IF SameRow(seen[r])
       THEN /\ Ends(r, "done")
            /\ cmd' = Flushed(cmd, seen[r], 
                    [seen[r] EXCEPT !.enabled = IF op[r].enabled = None THEN @ ELSE op[r].enabled,
                                    !.steps = IF op[r].value = None THEN @ ELSE op[r].value])
       ELSE Ends(r, "failed") /\ UNCHANGED cmd
    /\ UNCHANGED <<names, pin, logged, alone>>

\* delete_command
CommitDelete(r) ==
    /\ pc[r] = "commit" /\ op[r].do = "delete"
    /\ cmd' = IF SameRow(seen[r]) THEN None ELSE cmd
    /\ Ends(r, "done")
    /\ UNCHANGED <<names, pin, logged, alone>>

\* One step of execute_command, awaited.  An ACK that failed is a result like
\* any other; an exception ends the sequence unless the step says "continue".
Step(r) ==
    /\ pc[r] = "step" /\ at[r] < Len(seen[r].steps)
    /\ \E raised \in BOOLEAN :
         at' = [at EXCEPT ![r] = IF raised /\ seen[r].steps[at[r] + 1] = "abort"
                                 THEN Len(seen[r].steps) ELSE @ + 1]
    /\ UNCHANGED <<rows, pc, op, seen, past, alone>>

\* record_execution: success, however the steps went.
Record(r) ==
    /\ pc[r] = "step" /\ at[r] = Len(seen[r].steps)
    /\ logged' = IF SameRow(seen[r]) THEN logged + 1 ELSE logged
    /\ pc' = [pc EXCEPT ![r] = "count"]
    /\ UNCHANGED <<names, pin, cmd, op, seen, at, past, alone>>

\* bump_execution_count reads the row: the session still has the object of an
\* equal number, with the count from before the execution.
BumpRead(r) ==
    /\ pc[r] = "count"
    /\ IF cmd = None THEN Ends(r, "done")
       ELSE Goes(r, "bump", IF SameRow(seen[r]) THEN seen[r] ELSE cmd)
    /\ UNCHANGED <<rows, alone>>

BumpWrite(r) ==
    /\ pc[r] = "bump"
    /\ IF SameRow(seen[r])
       THEN /\ Ends(r, "done")
            /\ cmd' = Flushed(cmd, seen[r], [seen[r] EXCEPT !.count = @ + 1])
       ELSE Ends(r, "failed") /\ UNCHANGED cmd
    /\ UNCHANGED <<names, pin, logged, alone>>

-----------------------------------------------------------------------------
Unasked == [do |-> "nothing", macs |-> {}, value |-> None, enabled |-> None]

DatabaseInit ==
    /\ menu \in Menus
    /\ names \in [Macs -> {None, "given"}]
    /\ pin \in {None, NewPin, [NewPin EXCEPT !.locked = TRUE]}
    /\ cmd \in {None} \union [id : {1}, enabled : {TRUE}, steps : Programs, count : {0}]
    /\ first = [names |-> names, pin |-> pin]
    /\ logged = 0 /\ alone = TRUE
    /\ pc = [r \in Requests |-> "idle"]
    /\ op = [r \in Requests |-> Unasked]
    /\ seen = [r \in Requests |-> None]
    /\ at = [r \in Requests |-> 0]
    /\ past = [r \in Requests |-> {}]

Do(r) ==
    \/ Begin(r)
    \/ DeleteBond(r) \/ SelectNames(r) \/ CommitName(r) \/ CommitUnname(r) \/ CommitRemember(r)
    \/ SelectPin(r) \/ CommitPin(r)
    \/ SelectCommand(r) \/ CommitCreate(r) \/ CommitUpdate(r) \/ CommitDelete(r)
    \/ Step(r) \/ Record(r) \/ BumpRead(r) \/ BumpWrite(r)

DatabaseNext == (\E r \in Requests : Do(r)) /\ UNCHANGED <<menu, first>>

DatabaseSpec == DatabaseInit /\ [][DatabaseNext]_databaseVars

-----------------------------------------------------------------------------
(* Properties                                                              *)

\* What a request makes of the row of device m, all at once.
NameAfter(r, m, name) ==
    CASE op[r].do = "name" -> op[r].value
      [] op[r].do \in {"unname", "unpair"} -> None
      [] op[r].do = "remember" -> IF name = None THEN m ELSE name

\* No row of the pin is one that says nothing.
Said(row) == IF row = None THEN NewPin ELSE row

\* What requests make of a name, or of the row of the pin, one after the other.
NameOf(m, name, s) == FoldLeft(LAMBDA n, r : NameAfter(r, m, n), name, s)
PinOf(row, s)      == FoldLeft(LAMBDA p, r : PinWanted(r, p), row, s)

\* The successful requests of a kind, in the orders in which none comes before
\* one that had ended when it began.
Successful(dos) == {r \in Requests : pc[r] = "done" /\ op[r].do \in dos}
Orders(rs) ==
    {s \in SetToSeqs(rs) : \A i, j \in 1..Len(s) : s[i] \in past[s[j]] => i < j}

\* The row of a device, and every column of the row of the pin, is at all times
\* what the requests that succeeded would have made of it one after the other,
\* in an order that respects which had ended before which began: no answer
\* "success" is of a name or a lock that an overlapping request undid without
\* following it, and what _remember_ble_devices adds never takes the place of a
\* name that was given (api/ble.py:107-132, main.py:68-87, api/pins.py:54-107).
RowsSerial ==
    /\ \A m \in Macs :
         LET rs == {r \in Successful({"name", "unname", "unpair", "remember"}) : m \in op[r].macs}
         IN  \E s \in Orders(rs) : NameOf(m, first.names[m], s) = names[m]
    /\ \A c \in DOMAIN NewPin : \E s \in Orders(Successful({"lock", "unlock", "expect"})) :
         PinOf(Said(first.pin), s)[c] = Said(pin)[c]

\* As long as executions of a command overlap neither each other nor its
\* creation or deletion, execution_count is the number of its executions in the
\* log, but for those logged and not yet counted: an update of the command at
\* the same time never takes the count back (db/crud.py:45-56, 77-82).
CountsExecutions ==
    alone /\ cmd # None =>
        /\ cmd.count <= logged
        /\ (\A r \in Requests : pc[r] \notin {"count", "bump"}) => cmd.count = logged
=============================================================================
