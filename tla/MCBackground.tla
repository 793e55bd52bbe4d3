---------------------------- MODULE MCBackground ----------------------------
(* The maintenance pass and the monitors.  They share no row but the monitor's *)
(* status, which the sweep of a pass reads in Monitors itself, so their        *)
(* interleavings add nothing: a behaviour exercises one of them.               *)
EXTENDS Maintenance, Monitors

VARIABLE focus      \* the part that moves in this behaviour

backVars == <<vars, monVars, focus>>

BackInit ==
    /\ Init /\ MonInit
    /\ focus \in {"maintenance", "monitors"}
    /\ focus = "maintenance" => monitor = "absent"

InMaintenance(A) == focus = "maintenance" /\ A /\ UNCHANGED <<monVars, focus>>
InMonitors(A) == focus = "monitors" /\ A /\ UNCHANGED <<vars, focus>>

BackNext == InMaintenance(Next) \/ InMonitors(MonNext)

(* FairSpec and MonFairness, each in the behaviours that it is about. *)
BackSpec ==
    /\ BackInit /\ [][BackNext]_backVars
    /\ \A p \in Procs : WF_backVars(InMaintenance(Maintain(p)))
    /\ WF_backVars(InMonitors(Sweep))
    /\ \A c \in MonClients \cup {Sweeper} : WF_backVars(InMonitors(CtlStep(c)))
    /\ \A w \in MonWorkers :
          WF_backVars(InMonitors(LookStep(w))) /\ WF_backVars(InMonitors(WatchLeaseEnds(w)))
    /\ WF_backVars(InMonitors(\E w \in MonWorkers : ClaimWatch(w)))

(* Every row, request, run and pass has its type: in particular the tenant    *)
(* cursor that maintain() puts back is always the index of a tenant.          *)
BackgroundTypeOK == MaintenanceTypeOK /\ MonitorTypeOK
=============================================================================
