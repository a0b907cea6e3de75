---------------------------- MODULE ProviderPort ----------------------------
(***************************************************************************)
(* port.Provider: what any hypervisor adapter promises its callers.  An    *)
(* operation that returns without an error has had its effect on the       *)
(* hypervisor by then.  An operation that returns an error promises        *)
(* nothing: its effect may be missing, may be there, and may even come     *)
(* later, because requests are executed by remote tasks.                   *)
(***************************************************************************)
EXTENDS Naturals, Sequences

CONSTANT MaxCalls     \* how many operations are called

VARIABLES ops,        \* the operations called so far, the last one may be running
          done,       \* <<k, e>>: effect e of the k-th call has happened
          result      \* "idle", "running", "ok" or "error"

portVars == <<ops, done, result>>

Effect == {"on", "off", "suspended", "booted", "asked", "absent", "new", "snapped", "unsnapped", "reverted",
           "copied", "scrubbed"}

\* The effects an operation may have; the others only read.
May == [CreateVM       |-> {"new"},
        DeleteVM       |-> {"off", "absent"},
        CloneVM        |-> {"new", "copied", "scrubbed"},
        CloneLinked    |-> {"new"},
        PowerOn        |-> {"on"},
        PowerOff       |-> {"off"},
        Suspend        |-> {"suspended"},
        Reset          |-> {"booted"},
        Reboot         |-> {"booted", "asked"},
        CreateSnapshot |-> {"snapped"},
        DeleteSnapshot |-> {"unsnapped"},
        RevertSnapshot |-> {"reverted"}]

Reads == {"Connect", "Disconnect", "Ping", "GetVM", "GetVMMetrics", "ListSnapshots", "ListVMs", "ListDataStores",
          "GetDataStore", "ListNetworks", "GetNetwork", "SyncInventory", "ListTemplates", "GetConsoleSession"}

Op == DOMAIN May \cup Reads

\* One of these has happened when the operation returns without an error.
Promised(o) == IF o = "DeleteVM" THEN {"absent"} ELSE IF o \in {"CloneVM", "CloneLinked"} THEN {"new"} ELSE May[o]

Init == ops = << >> /\ done = {} /\ result = "idle"

Call(o) == /\ result # "running" /\ Len(ops) < MaxCalls
           /\ ops' = Append(ops, o) /\ result' = "running"
           /\ UNCHANGED done

\* An effect happens while its call runs or at any time after it.
Perform(k, e) == /\ ops[k] \in DOMAIN May /\ e \in May[ops[k]]
                 /\ done' = done \cup {<<k, e>>}
                 /\ UNCHANGED <<ops, result>>

ReturnOK == /\ result = "running"
            /\ ops[Len(ops)] \in DOMAIN May => \E e \in Promised(ops[Len(ops)]) : <<Len(ops), e>> \in done
            /\ result' = "ok"
            /\ UNCHANGED <<ops, done>>

ReturnError == result = "running" /\ result' = "error" /\ UNCHANGED <<ops, done>>

Next == \/ \E o \in Op : Call(o)
        \/ \E k \in 1..Len(ops), e \in Effect : Perform(k, e)
        \/ ReturnOK
        \/ ReturnError

Spec == Init /\ [][Next]_portVars

=============================================================================
