---------------------------- MODULE TransferPlan ----------------------------
(***************************************************************************)
(* What becomes of a transfer the user configures: the dialog              *)
(* (ui/dialogs/transfer_dialogs.py), the data of a row of the queue, the   *)
(* list it is added to (ui/tabs/schedules_widget.py and                    *)
(* ui/dialogs/schedule_dialogs.py), the file of the lists                  *)
(* (core/schedules.py) and the command that runs in the end                *)
(* (core/rsync.py).                                                        *)
(*                                                                         *)
(* A path is a sequence of texts: that of its field, or directory and      *)
(* pattern.  A pattern is relative.  A time of day is its hour, a day its   *)
(* number.  Left out: run logs and ids.                                    *)
(***************************************************************************)
EXTENDS Integers, FiniteSets, SequencesExt

CONSTANTS
    HostTables,     \* what the scanner's table may show: sequences of hosts,
                    \* with ip, alias, primary user (NoUser for none) and more users
    Nameless,       \* no alias
    Bracketed,      \* an alias with parentheses, which hold the text Inner
    Inner,
    Here,           \* 127.0.0.1
    Blank,          \* spaces alone
    Forbidden,      \* texts with a character no path or option may have
    PlanForms,      \* bound: the states of the dialog
    ListTriggers,   \* bound: what the user may set in a list's dialog
    OldFiles,       \* bound: files of earlier versions
    MaxLists,       \* bound: the lists, and the transfers of a list
    MaxListed

NoUser == ""

IsList(s) == s \in Seq({s[i] : i \in DOMAIN s})
HasNames(users) == \A k \in DOMAIN users : users[k] # NoUser
HasNumbers(trigger) == \A field \in {"value", "hours"} \cap DOMAIN trigger : trigger[field] \in Int

ASSUME PlanAssumption ==
    /\ MaxLists \in Nat /\ MaxListed \in Nat
    /\ \A t \in HostTables :
         IsList(t) /\ \A i \in DOMAIN t : t[i].ip # Here /\ IsList(t[i].extras) /\ HasNames(t[i].extras)
    /\ \A t \in ListTriggers :
         /\ t = [type |-> t.type, value |-> t.value, unit |-> t.unit, days |-> t.days, time |-> t.time]
         /\ t.value \in Int
    /\ \A file \in OldFiles :
         /\ IsList(file)
         /\ \A i \in DOMAIN file : /\ "transfers" \in DOMAIN file[i] => IsList(file[i].transfers)
                                   /\ "trigger" \in DOMAIN file[i] => HasNumbers(file[i].trigger)

VARIABLES
    table,      \* the scanner's table
    queued,     \* the last transfer queued: the dialog it is of, and its data
    lists,      \* manager.schedules
    listFile    \* schedules.json

planVars == <<table, queued, lists, listFile>>

---------------------------------------------------------------------------
\* The dialog.

\* _open_dialog(): every user of a host that has an alias.
OptionsOf(h) ==
    IF h.alias = Nameless THEN <<>>
    ELSE LET users == (IF h.primary = NoUser THEN <<>> ELSE <<h.primary>>) \o h.extras
         IN  [i \in DOMAIN users |-> [alias |-> h.alias, ip |-> h.ip, user |-> users[i]]]
Offered == FlattenSeq([i \in DOMAIN table |-> OptionsOf(table[i])])

\* _extract_ip(): the first text in parentheses.
IpOf(device) ==
    IF device = 0 THEN Here
    ELSE IF Offered[device].alias = Bracketed THEN Inner ELSE Offered[device].ip

\* ip_to_user: the last user of an address.
UserOf(ip) ==
    LET at == {i \in DOMAIN Offered : Offered[i].ip = ip}
    IN  IF at = {} THEN NoUser ELSE Offered[Max(at)].user

\* _setup_ui() and _on_type_changed(): a file is not copied recursively.
IsForm(f) ==
    /\ {f.from, f.to} \subseteq 0..Len(Offered)
    /\ f.kind = "file" => "-r" \notin f.flags

\* _validate()
Written(text) == text \notin {"", Blank}
Passes(f) == Written(IF f.kind = "wildcard" THEN f.dir ELSE f.path) /\ Written(f.dest)

\* get_transfer_data(): "user@ip:path", or the path alone.
EndAt(ip, user, path) == [ip |-> ip, user |-> IF ip = Here THEN NoUser ELSE user, path |-> path]
DataOf(f) ==
    LET sender   == IpOf(f.from)
        receiver == IpOf(f.to)
        src      == IF f.kind = "wildcard" THEN <<f.dir, f.path>> ELSE <<f.path>>
        dst      == <<f.dest>>
    IN  [sender_ip |-> sender, sender_user |-> UserOf(sender), receiver_ip |-> receiver,
         src_path |-> src, dst_path |-> dst, args |-> f.flags,
         full_source |-> EndAt(sender, UserOf(sender), src), full_dest |-> EndAt(receiver, UserOf(receiver), dst)]

---------------------------------------------------------------------------
\* The command.

IsRemoteToRemote(d) == d.sender_ip # Here /\ d.receiver_ip # Here

\* shlex.quote() of a name: an empty one becomes two quotes, which no shell
\* takes off again, as ssh is run without one.
Quoted(user) == IF user = NoUser THEN "''" ELSE user

\* build_command(): rsync runs on the sender, with its own path, or here.  The
\* line a sender's shell is given quotes the path.
BuildCommandMutant(d) ==
    [on |-> IF IsRemoteToRemote(d) THEN EndAt(d.sender_ip, Quoted(d.sender_user), <<>>) ELSE EndAt(Here, NoUser, <<>>),
     args |-> d.args, source |-> d.full_source, dest |-> d.full_dest, quoted |-> IsRemoteToRemote(d)]
BuildCommand(d) ==
    IF IsRemoteToRemote(d)
    THEN [on |-> EndAt(d.sender_ip, Quoted(d.sender_user), <<>>), args |-> d.args,
          source |-> EndAt(Here, NoUser, d.src_path), dest |-> d.full_dest, quoted |-> TRUE]
    ELSE [on |-> EndAt(Here, NoUser, <<>>), args |-> d.args,
          source |-> d.full_source, dest |-> d.full_dest, quoted |-> FALSE]

\* _pin_remote_host(): whose key is pinned before.
Pinned(d) == IF d.sender_ip # Here THEN d.sender_ip ELSE d.receiver_ip

\* An end that names no machine is on the one rsync runs on; ssh goes from here
\* to that machine, or to the other end.
EndOf(c, end) == IF end.ip = Here THEN EndAt(c.on.ip, c.on.user, end.path) ELSE end
MetBy(c) ==
    IF c.on.ip # Here THEN c.on.ip
    ELSE IF c.source.ip # Here THEN c.source.ip ELSE c.dest.ip

\* A pattern is expanded by a shell: that of the sender, which rsync leaves it
\* to, or that of the line that starts rsync there.  Here there is none.
Expands(c) == IF c.on.ip = Here THEN c.source.ip # Here ELSE ~c.quoted

---------------------------------------------------------------------------
\* Lists.

\* Transfer.validate(), which Schedule.validate() asks of every transfer.
TextOk(t) == t # <<"">> /\ ToSet(t) \cap Forbidden = {}
EndOk(e) == TextOk(e.path) /\ {e.user, e.ip} \cap Forbidden = {}
TransferOk(t) ==
    /\ TextOk(t.src_path) /\ TextOk(t.dst_path) /\ EndOk(t.full_source) /\ EndOk(t.full_dest)
    /\ t.args \cap Forbidden = {}

PlanUnits == {"minutes", "hours", "days", "months"}
PlanDays  == 0..6
PlanHours == 0..23
TriggerOk(t) ==
    \/ t.type = "manual"
    \/ t.type = "interval"  /\ t.value >= 1 /\ t.unit \in PlanUnits
    \/ t.type = "scheduled" /\ t.days # {} /\ t.days \subseteq PlanDays /\ t.time \in PlanHours

ListOk(s) ==
    /\ s.name # "" /\ s.missed \in {"skip", "run", "warn"} /\ s.onFailure \in {"continue", "abort"}
    /\ TriggerOk(s.trigger) /\ \A i \in DOMAIN s.transfers : TransferOk(s.transfers[i])

\* The dataclasses Schedule and Trigger.
ListOf(name, enabled, confirm, missed, onFailure, trigger, transfers) ==
    [name |-> name, enabled |-> enabled, confirm |-> confirm, missed |-> missed, onFailure |-> onFailure,
     trigger |-> trigger, transfers |-> transfers]
TriggerWith(type, value, unit, days, time) ==
    [type |-> type, value |-> value, unit |-> unit, days |-> days, time |-> time]
Default == TriggerWith("manual", 24, "hours", {}, 2)

NewSchedule(t) == ListOf("Untitled", TRUE, FALSE, "warn", "continue", Default, <<t>>)

\* The fields of a list that its dialog and its menu set.
With(s, name, trigger, transfers) ==
    ListOf(name, s.enabled, s.confirm, s.missed, s.onFailure, trigger, transfers)

\* _populate_from_schedule(): the fields of a type that is not chosen stay at
\* their defaults.
ShownTrigger(t) ==
    CASE t.type = "interval"  -> TriggerWith("interval", IF t.value > 9999 THEN 9999 ELSE t.value, t.unit, {}, 2)
      [] t.type = "scheduled" -> TriggerWith("scheduled", 24, "hours", t.days, t.time)
      [] t.type = "manual"    -> Default
Populated(s) == With(s, IF s.name = "Untitled" THEN "" ELSE s.name, ShownTrigger(s.trigger), s.transfers)

\* _validate_and_accept(): a trigger is made of the fields of its type.
Accepts(s) == ListOk(s)

---------------------------------------------------------------------------
\* The file: a field that an older version did not write has a default.

Get(r, field, default) == IF field \in DOMAIN r THEN r[field] ELSE default

TriggerMutant(r) ==
    TriggerWith(Get(r, "type", "manual"), Get(r, "value", 24), "hours", Get(r, "days", {}), Get(r, "time", 2))
OldHours(r) == IF Get(r, "hours", 0) = 0 THEN 24 ELSE r.hours
TriggerOf(r) ==
    TriggerWith(Get(r, "type", "manual"), Get(r, "value", OldHours(r)), Get(r, "unit", "hours"),
                Get(r, "days", {}), Get(r, "time", 2))
NoFields == [x \in {} |-> 0]
DictToSchedule(r) ==
    ListOf(Get(r, "name", "Untitled"), Get(r, "enabled", TRUE), Get(r, "confirm", FALSE), Get(r, "missed", "warn"),
           Get(r, "onFailure", "continue"), TriggerOf(Get(r, "trigger", NoFields)), Get(r, "transfers", <<>>))

\* _parse(): a list that is not valid is left out.
Parsed(file) ==
    LET parsed[i \in 0..Len(file)] ==
          IF i = 0 THEN <<>>
          ELSE IF ListOk(DictToSchedule(file[i])) THEN Append(parsed[i - 1], DictToSchedule(file[i]))
          ELSE parsed[i - 1]
    IN  parsed[Len(file)]

---------------------------------------------------------------------------
NotQueued == [form |-> [kind |-> "none"], data |-> [args |-> {}]]

PlanInit ==
    /\ table \in HostTables /\ queued = NotQueued
    /\ listFile \in OldFiles \cup {<<>>} /\ lists = Parsed(listFile)

AddTransfer(f) ==
    /\ IsForm(f) /\ Passes(f)
    /\ queued' = [form |-> f, data |-> DataOf(f)]
    /\ UNCHANGED <<table, lists, listFile>>

\* save() follows every change: what it writes is the lists.
Agreed(new) == lists' = new /\ listFile' = new /\ UNCHANGED <<table, queued>>

\* The menu of a row of the queue.
NewList(name, trigger) ==
    /\ queued # NotQueued /\ TransferOk(queued.data)
    /\ LET s == With(Populated(NewSchedule(queued.data)), name, trigger, <<queued.data>>)
       IN  Len(lists) < MaxLists /\ Accepts(s) /\ Agreed(Append(lists, s))

AddToListMutant(i) ==
    /\ queued # NotQueued
    /\ Len(lists[i].transfers) < MaxListed
    /\ Agreed([lists EXCEPT ![i] = With(@, @.name, @.trigger, Append(@.transfers, queued.data))])
AddToList(i) ==
    /\ queued # NotQueued /\ TransferOk(queued.data)
    /\ Len(lists[i].transfers) < MaxListed
    /\ Agreed([lists EXCEPT ![i] = With(@, @.name, @.trigger, Append(@.transfers, queued.data))])

\* The dialog of a list: another trigger, or one transfer less.
EditList(i) ==
    LET s == Populated(lists[i]) IN
    \E t \in ListTriggers \cup {s.trigger}, kept \in {s.transfers} \cup {RemoveAt(s.transfers, k) : k \in DOMAIN s.transfers} :
        LET new == With(s, s.name, t, kept)
        IN  Accepts(new) /\ Agreed([lists EXCEPT ![i] = new])

\* The program ends and is started again.
LoadLists == lists' = Parsed(listFile) /\ UNCHANGED <<table, queued, listFile>>

PlanNext ==
    \/ \E f \in PlanForms : AddTransfer(f)
    \/ \E name \in {"", "backup"}, t \in ListTriggers : NewList(name, t)
    \/ \E i \in DOMAIN lists : AddToList(i) \/ EditList(i)
    \/ LoadLists

PlanSpec == PlanInit /\ [][PlanNext]_planVars

---------------------------------------------------------------------------
\* What was configured is what runs.  The command reads the path on the sender
\* and writes the path on the receiver, with the options chosen, wherever rsync
\* runs, which takes one end on another machine at most; the host whose key is
\* pinned before is the one ssh meets first.  The account is the one chosen, or
\* that of a later device at the same address: the dialog keeps one account of
\* an address.  Of a label with parentheses of its own nothing is said.  A path
\* is a pattern only where another machine sends to this one; between any other
\* two the dialog takes a wildcard, and rsync looks for a file of that name.
\* A list that was agreed to is the same after every restart: nothing that a
\* dialog lets through makes the next start leave it out; and confirming its
\* dialog unchanged changes nothing that counts, but for an interval longer
\* than the dialog can show (core/rsync.py, core/schedules.py,
\* transfer_dialogs.py, schedule_dialogs.py).
Chosen(device) == IF device = 0 THEN [ip |-> Here, user |-> NoUser]
                  ELSE [ip |-> Offered[device].ip, user |-> Offered[device].user]
IsAccountOf(end, device) ==
    /\ end.ip = Chosen(device).ip
    /\ end.user # Chosen(device).user =>
         \E i \in DOMAIN Offered : i > device /\ Offered[i].ip = end.ip /\ Offered[i].user = end.user
IsAt(end, device, path) ==
    /\ end.path = path
    /\ (device # 0 => Offered[device].alias # Bracketed) => IsAccountOf(end, device)

CommandIsMeant ==
    queued # NotQueued =>
        LET c    == BuildCommand(queued.data)
            f    == queued.form
            from == EndOf(c, c.source)
            to   == EndOf(c, c.dest)
        IN  /\ IsAt(from, f.from, IF f.kind = "wildcard" THEN <<f.dir, f.path>> ELSE <<f.path>>)
            /\ IsAt(to, f.to, <<f.dest>>)
            /\ Expands(c) <=> from.ip # Here /\ to.ip = Here
            /\ Here \in {c.source.ip, c.dest.ip}
            /\ c.args = f.flags /\ MetBy(c) = Pinned(queued.data)

Timing(t) ==
    CASE t.type = "interval"  -> <<t.value, t.unit>>
      [] t.type = "scheduled" -> <<t.days, t.time>>
      [] t.type = "manual"    -> <<>>
Counts(s) == <<s.name, s.enabled, s.confirm, s.missed, s.onFailure, s.transfers, Timing(s.trigger)>>
ListsSurvive ==
    /\ Parsed(listFile) = lists
    /\ \A i \in DOMAIN lists :
         lists[i].name # "Untitled" /\ lists[i].trigger.value <= 9999 =>
            Accepts(Populated(lists[i])) /\ Counts(Populated(lists[i])) = Counts(lists[i])

PlansAreKept == CommandIsMeant /\ ListsSurvive
=============================================================================
