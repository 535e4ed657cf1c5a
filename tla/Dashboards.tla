------------------------------ MODULE Dashboards ------------------------------
(***************************************************************************)
(* Dashboards, their widgets and the default dashboard: routes/            *)
(* dashboards.py.  The default is cleared by one bulk UPDATE and set by    *)
(* another statement of the same transaction.  Under READ COMMITTED the    *)
(* bulk UPDATE concerns the rows that were default when it started, waits  *)
(* for those another transaction holds, and looks at them again.  So it is *)
(* a snapshot now, and its effect comes with the commit.                   *)
(***************************************************************************)
EXTENDS Naturals

CONSTANTS
  Clients,          \* concurrent requests
  MaxBoards,        \* bound on the dashboards ever created
  Widgets,          \* primary keys of widgets, each used once
  Sensors,
  Absent            \* no row, no request, a field left out

VARIABLES
  default,  \* table dashboards: is_default of each row
  widget,   \* table dashboard_widgets: dashboard_id and sensor_id of each row
  sensors,  \* table sensors
  made,     \* how many dashboards have been created: a key is never used again
  spent,    \* the widget keys some row has had
  req       \* the request each client is waiting for

tables == <<default, widget, sensors, made, spent>>
vars == <<tables, req>>

Boards == 1 .. MaxBoards
Idle == Absent
Exists(b) == default[b] # Absent
Defaults == {b \in Boards : Exists(b) /\ default[b]}
WidgetRow == [board : Boards, sensor : Sensors \cup {Absent}]

\* cleared: the rows the bulk UPDATE found.  raced (history): since then, or
\* since the row was loaded, another request has changed the defaults.
Request == [op : {"create", "update", "delete", "add", "edit", "remove"},
            board : Boards \cup {Absent}, widget : Widgets \cup {Absent},
            fields : [default : BOOLEAN \cup {Absent}] \cup [sensor : Sensors \cup {Absent}]
                     \cup {Absent},
            view : BOOLEAN \cup Sensors \cup {Absent},
            cleared : {Absent} \cup SUBSET Boards, raced : BOOLEAN]

\* What the constants have to be.
DashboardsAssumption ==
  /\ MaxBoards \in Nat
  /\ Absent \notin BOOLEAN /\ \A S \in SUBSET Boards : S # Absent
  /\ Absent \notin WidgetRow /\ Absent \notin [default : BOOLEAN] /\ Absent \notin Request

\* Type invariant, with the foreign keys of the widgets.
TypeOK ==
  /\ default \in [Boards -> BOOLEAN \cup {Absent}]
  /\ widget \in [Widgets -> WidgetRow \cup {Absent}]
  /\ sensors \subseteq Sensors /\ spent \subseteq Widgets /\ made \in 0 .. MaxBoards
  /\ \A w \in Widgets : widget[w] # Absent =>
       Exists(widget[w].board) /\ widget[w].sensor \in sensors \cup {Absent}
  /\ req \in [Clients -> Request \cup {Idle}]

Ask(c, op, b, w, fields, view) ==
  /\ req[c] = Idle
  /\ req' = [req EXCEPT ![c] = [op |-> op, board |-> b, widget |-> w, fields |-> fields,
                                view |-> view, cleared |-> Absent, raced |-> FALSE]]
  /\ UNCHANGED tables

At(c, op) == req[c] # Idle /\ req[c].op = op
Cleared(c) == req[c].cleared # Absent

Commit(c, d) ==
  /\ default' = d
  /\ req' = [o \in Clients |-> IF o = c \/ req[o] = Idle THEN Idle
                               ELSE [req[o] EXCEPT !.raced = @ \/ d # default]]

\* The statements of _unset_default_dashboards() on the rows it found.
Unset(c) == [b \in Boards |-> IF b \in req[c].cleared /\ Exists(b) THEN FALSE ELSE default[b]]

-----------------------------------------------------------------------------
\* Dashboards.

CreateDashboard(c, d) == Ask(c, "create", Absent, Absent, [default |-> d], Absent)

UpdateDashboard(c, b, d) ==
  Exists(b) /\ Ask(c, "update", b, Absent, [default |-> d], default[b])

\* The bulk UPDATE starts, for a request that makes its dashboard the default.
UnsetDefaults(c) ==
  /\ req[c] # Idle /\ req[c].op \in {"create", "update"}
  /\ req[c].fields.default = TRUE /\ ~ Cleared(c)
  /\ req' = [req EXCEPT ![c].cleared = Defaults, ![c].raced = FALSE]
  /\ UNCHANGED tables

CreateCommit(c) ==
  /\ At(c, "create") /\ (req[c].fields.default => Cleared(c))
  /\ made < MaxBoards /\ made' = made + 1
  /\ LET base == IF Cleared(c) THEN Unset(c) ELSE default IN
       Commit(c, [base EXCEPT ![made'] = req[c].fields.default])
  /\ UNCHANGED <<widget, sensors, spent>>

\* Mutant of UpdateCommit: the bulk UPDATE leaves the loaded object as it was,
\* so that a default made default again is not written.
UpdateCommitUnsynchronised(c) ==
  /\ At(c, "update") /\ Exists(req[c].board)
  /\ req[c].fields.default = TRUE => Cleared(c)
  /\ LET d == req[c].fields.default
         base == IF Cleared(c) THEN Unset(c) ELSE default IN
       Commit(c, IF d \in {Absent, req[c].view} THEN base
                 ELSE [base EXCEPT ![req[c].board] = d])
  /\ UNCHANGED <<widget, sensors, made, spent>>

\* The column is written if it differs from the loaded object's, which the bulk
\* UPDATE has set to false as well.
UpdateCommit(c) ==
  /\ At(c, "update") /\ Exists(req[c].board)
  /\ req[c].fields.default = TRUE => Cleared(c)
  /\ LET d == req[c].fields.default
         base == IF Cleared(c) THEN Unset(c) ELSE default
         loaded == IF Cleared(c) THEN FALSE ELSE req[c].view IN
       Commit(c, IF d \in {Absent, loaded} THEN base
                 ELSE [base EXCEPT ![req[c].board] = d])
  /\ UNCHANGED <<widget, sensors, made, spent>>

DeleteDashboard(c, b) == Exists(b) /\ Ask(c, "delete", b, Absent, Absent, default[b])

\* Mutant of DeleteCommit: the widgets stay.
DeleteCommitAlone(c) ==
  /\ At(c, "delete")
  /\ Commit(c, [default EXCEPT ![req[c].board] = Absent])
  /\ UNCHANGED <<widget, sensors, made, spent>>

\* The widgets go with it, those added since it was loaded as well.
DeleteCommit(c) ==
  /\ At(c, "delete")
  /\ Commit(c, [default EXCEPT ![req[c].board] = Absent])
  /\ widget' = [w \in Widgets |-> IF widget[w] # Absent /\ widget[w].board = req[c].board
                                  THEN Absent ELSE widget[w]]
  /\ UNCHANGED <<sensors, made, spent>>

-----------------------------------------------------------------------------
\* Widgets.  The sensor, where there is one, is looked up before the commit.

CreateWidget(c, b, s) ==
  /\ Exists(b) /\ s \in sensors \cup {Absent}
  /\ Ask(c, "add", b, Absent, [sensor |-> s], Absent)

\* The foreign keys refuse the row if what it refers to has gone.
CreateWidgetCommit(c) ==
  /\ At(c, "add") /\ Exists(req[c].board) /\ req[c].fields.sensor \in sensors \cup {Absent}
  /\ \E w \in Widgets \ spent :
       /\ widget' = [widget EXCEPT ![w] = [board |-> req[c].board,
                                           sensor |-> req[c].fields.sensor]]
       /\ spent' = spent \cup {w}
  /\ Commit(c, default) /\ UNCHANGED <<sensors, made>>

\* _get_widget(): a widget is reached through its own dashboard.
Found(b, w) == widget[w] # Absent /\ widget[w].board = b

UpdateWidget(c, b, w, s) ==
  /\ Found(b, w) /\ s \in sensors \cup {Absent}
  /\ Ask(c, "edit", b, w, [sensor |-> s], widget[w].sensor)

UpdateWidgetCommit(c) ==
  /\ At(c, "edit") /\ widget[req[c].widget] # Absent
  /\ LET s == req[c].fields.sensor IN
       /\ s \in sensors \cup {Absent}
       /\ widget' = IF s = req[c].view THEN widget
                    ELSE [widget EXCEPT ![req[c].widget].sensor = s]
  /\ Commit(c, default) /\ UNCHANGED <<sensors, made, spent>>

DeleteWidget(c, b, w) == Found(b, w) /\ Ask(c, "remove", b, w, Absent, Absent)

DeleteWidgetCommit(c) ==
  /\ At(c, "remove")
  /\ widget' = [widget EXCEPT ![req[c].widget] = Absent]
  /\ Commit(c, default) /\ UNCHANGED <<sensors, made, spent>>

\* The transaction fails or is refused, and leaves nothing.
Fail(c) == req[c] # Idle /\ req' = [req EXCEPT ![c] = Idle] /\ UNCHANGED tables

\* A sensor no widget refers to is removed from the database.
DropSensor(s) ==
  /\ s \in sensors /\ \A w \in Widgets : widget[w] # Absent => widget[w].sensor # s
  /\ sensors' = sensors \ {s}
  /\ UNCHANGED <<default, widget, made, spent, req>>

-----------------------------------------------------------------------------
Init ==
  /\ default = [b \in Boards |-> Absent] /\ widget = [w \in Widgets |-> Absent]
  /\ sensors = Sensors /\ made = 0 /\ spent = {} /\ req = [c \in Clients |-> Idle]

Next ==
  \/ \E s \in Sensors : DropSensor(s)
  \/ \E c \in Clients :
       \/ \E d \in BOOLEAN : CreateDashboard(c, d)
       \/ \E b \in Boards :
            \/ \E d \in BOOLEAN \cup {Absent} : UpdateDashboard(c, b, d)
            \/ DeleteDashboard(c, b)
            \/ \E s \in Sensors \cup {Absent} : CreateWidget(c, b, s)
            \/ \E w \in Widgets :
                 \/ \E s \in Sensors \cup {Absent} : UpdateWidget(c, b, w, s)
                 \/ DeleteWidget(c, b, w)
       \/ UnsetDefaults(c) \/ CreateCommit(c) \/ UpdateCommit(c) \/ DeleteCommit(c)
       \/ CreateWidgetCommit(c) \/ UpdateWidgetCommit(c) \/ DeleteWidgetCommit(c)
       \/ Fail(c)

Spec == Init /\ [][Next]_vars

-----------------------------------------------------------------------------
\* Who answers now, having written what its request asked for.
MakesDefault(c) ==
  (CreateCommit(c) \/ UpdateCommit(c)) /\ req[c].fields.default = TRUE

\* A request that makes a dashboard the default leaves it the only one, unless
\* another changed the defaults after its bulk UPDATE had started; and a default
\* goes only with its dashboard, by a request to unset it, or for another one.
DefaultFollowsRequests ==
  [][/\ \A c \in Clients : MakesDefault(c) /\ ~ req[c].raced => \E b \in Boards : Defaults' = {b}
     /\ Defaults # {} /\ Defaults' = {} =>
          \E c \in Clients : /\ req[c] # Idle /\ req'[c] = Idle
                             /\ req[c].op \in {"update", "delete"}
                             /\ req[c].fields # [default |-> TRUE]]_vars

===============================================================================
