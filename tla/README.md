# A TLA+ model of LanScanMan

LanScanMan is a desktop program for one local network: it scans it, watches its
hosts over ssh, runs rsync transfers by hand and on a timer, reads the health of
disks, and talks to AI servers of the network. It is one Qt process. Everything
the user sees happens on the UI thread; every connection, transfer, scan and
request runs on a thread of its own and reports by signals that Qt queues for the
UI thread. Dialogs run an event loop inside the handler that opened them, so a
timer or another handler can run *under* a handler that waits for an answer. The
files that decide what is transferred where and which hosts are trusted
(`schedules.json`, `hosts.json`, `known_hosts`, `devices.json`) are signed.

These modules model the parts where order, threads, dialogs, failures and restarts
decide whether the program is right. Paths below are relative to `src/lanscanman/`.

## The parts of the system

| part | state | operations | modelled in |
|---|---|---|---|
| Schedules: due-time rules (`core/schedules.py`) | a list's trigger, `enabled`, `last_run` | `next_due`, `is_due`, `missed_since_last_open`, `skip` | `ScheduleDue`, `ListClock` |
| Schedules: store, panel, timer, startup handler (`core/schedules.py`, `ui/tabs/schedules_widget.py`, `app.py`) | the lists in memory and on disk, Pause All, `_active_runners`, suspended handlers | load, save, new, edit, delete, toggle, Run Now, the minute tick, the startup handler and their dialogs | `Schedules` |
| Schedules: one run (`core/schedule_runner.py`, `workers/scheduled_runner.py`, `ui/dialogs/schedule_dialogs.py`) | the runner's copy of the list, its results, queued signals, `_run_status`, the run log | the loop, its signals, edits and the detail dialog meanwhile | `ScheduleRun`, promise `ListRun` |
| Host trust (`services/ssh.py`, `core/integrity.py`, `ui/trust.py`) | `known_hosts` and its signature, `_lock`, open dialogs | verify, load, first contact, pin, accept a new key, trust the file | `SignedFile`, `KnownHosts` |
| Vault (`services/vault.py`, `core/integrity.py`, `services/secret_store.py`) | the key, its two places, the refusal's cooldown, the adoption record | unlock, move the key, adopt, register, sign | `Vault` |
| Host profiles (`core/profiles.py`) | the profiles in memory and in `hosts.json` | put, delete, users, re-key, re-read by every connection, trust, clear | `Profiles` |
| Device register (`core/devices.py`) | every device seen, its addresses, its flag | observe, acknowledge, context of a changed key | `Devices` |
| SMART readings and log (`core/smart.py`, `core/smart_history.py`, `core/drive_report.py`, `ui/tabs/smart_tab.py`) | the log of a disk, the tab's last result, the row | read in three ways, record, notify, hide and show, report | `SmartReading`, `SmartHistory` |
| Scans and permission (`workers/scanner.py`, `core/privilege.py`, `services/privilege.py`, `ui/privilege.py`) | the threads of two tabs, sudo's memory, the held password, the mode | start, try each method, deny, cancel, forget, end | `Scans` |
| Scanner table (`ui/tabs/scanner_tab.py`) | results, rows, profiles, pings under way, open dialogs | populate, fade, ping, add, edit, delete, connect, clear | `ScanTable` |
| What a scan is given (`ui/tabs/scanner_tab.py`, `ui/tabs/host_inspector_tab.py`, `core/nmap_scan.py`, `core/privilege.py`) | the subnet field and what was filled in, the inspector's list | follow the network, type, rebuild, choose, start | `Targets` |
| Transfer queue (`ui/tabs/transfer_tab.py`, `workers/rsync.py`) | rows, `active_workers`, the history file | add, cancel, restart, delete, clear, the worker's signals | `TransferQueue` |
| Transfers from the dialog to the command (`ui/dialogs/transfer_dialogs.py`, `ui/dialogs/schedule_dialogs.py`, `core/schedules.py`, `core/rsync.py`) | the dialog's fields, a row's data, the lists and their file | validate, queue, add to a list, edit a list, load, build the command | `TransferPlan` |
| Chat (`core/chat_tree.py`, `core/chat_store.py`, `ui/dialogs/chat_window.py`, `workers/ai.py`) | the message tree and its selected branch, the worker, the saved chats | send, stop, regenerate, edit, switch, new chat, save | `ChatTree`, `ChatSession` |
| Chat servers, keys, context sizes (`ui/dialogs/chat_window.py`, `core/ai_chat.py`) | the chosen server, its key in the field and the keyring, consents, model lists, limits | choose, type, forget, refresh, late answers, send, regenerate | `ChatServer` |
| AI server discovery (`ui/tabs/ai_tab.py`, `core/ai_discovery.py`) | listed servers, whether the hosts changed, the discovery | discover, add, answers | `AITab` |
| Probe tabs (`ui/tabs/monitor_tab.py`, `ui/tabs/smart_tab.py`, `workers/probes.py`) | one row and one worker per host, queued signals, open questions | populate, refresh, probe, result, error, key change | `ProbeTab` |
| Parsers, formatting, theme, dialogs without state | - | pure | not modelled |

How they meet: the main window's timer calls the transfer tab, which calls the
schedules panel, which starts a runner thread; the runner runs rsync workers, and
each of them, like every probe, first passes through the vault and the signed
`known_hosts`. A key that does not match comes back to the UI thread as a signal
and opens a dialog there, which rewrites `known_hosts`. `hosts.json` is re-read by
whichever thread connects. The panel and the store share the list objects; a
runner works on copies.

What is hard here, and what would make each part right:

* *Nested event loops.* Checks made before a dialog opens are stale when it is
  answered. A list should have one runner, a handler should name lists that exist,
  and a decision announced by one handler should not be overtaken by another.
* *Queued signals.* They arrive after the user has changed, restarted or deleted
  what they are about. What is shown and recorded should be what was done.
* *Two files per signed file.* A reader, a second writer or the end of the program
  can come between contents and signature. The file should go on verifying, no
  edit should be lost, and a real alarm should mean something.
* *Two names for one thing.* A host is its MAC, its last address or its row number;
  a disk is its serial number or its device; a server is its address; the text of an editable
  list need not be its current entry. What is done should be done to what was shown.
* *What is asked early and answered late.* A password, an authentication that sudo
  remembers, an API key, a list of models: who asked may have moved on meanwhile.
* *Failures that are logged only.* A save that fails leaves memory ahead of the
  disk; a load that fails must not let anything run.
* *Time.* A slot of today, of last week, at this very instant, or passed while
  the program was closed.

`PROJECT.json` lists each such place with its line and the properties that
cover it.

## The modules

### `ScheduleDue` and `ListClock` - when a list is due

`Trigger.to_timedelta`, `Schedule.next_due`, `is_due` and the manager's
`missed_since_last_open` as operators on a clock of `DayLen` steps a day. `ListClock`
lets one list run, be skipped or be closed at any instant. The code computes a slot; its
properties state the same by looking at every instant: `NextDueIsFirstSlot`,
`DueIsUnservedSlot`, and `SkipSilences`, that a skip is quiet until the next slot and no
longer. Together they are `FiresAtItsSlots`.

### `Schedules` - timer, startup handler, panel, store

The UI thread's handlers are the frames `user` (Run Now), `missed` (the startup
handler) and `tick` (the timer); a frame waits in a dialog (`ask`, `empty`) or goes
through the snapshot it took (`loop`). Only the topmost dialog is answered, and Qt
does not re-enter a timer whose slot has not returned. `mem` is
`manager.schedules`, `disk` is `schedules.json`; every `Save` may fail, which the code
only logs. `registry` is `_active_runners`, `run` the threads, `Quit` ends the program
anywhere and `Open` loads what was saved, or fails its check, or finds nothing
readable.

`RunOutcome` is `SchedulesWidget.run_schedule` up to its dialog or its runner,
`StartRunner` the rest of it: it registers without looking again.

### `ScheduleRun` and `ListRun` - one run

`ListRun` is the promise in the header of `core/schedule_runner.py`: a run takes
the list as it is, works through it once in order, gives each transfer it reaches
one result, and ends with a status its results deserve. `ScheduleRun` is the code: the
loop on its thread (`work`), the signals it queues (`inbox`), the panel's rows, and a
user who edits, extends, deletes and inspects the list meanwhile. Its property
`RunKeepsPromise` is `ListRun` under the refinement mapping `RunAsPromised`.
`ScheduledRunner.stop` is in the model because the class offers it; nothing in the
program calls it today. A transfer is `Invalid` when its re-validation before the
run fails.

### `SignedFile` and `KnownHosts` - host trust

`SignedFile` is a file and its signature, which are written and read one after the
other. In `KnownHosts` every thread of `Workers` and the UI thread is a record in `th`:
what it is doing, for which host and key, and the contents it has read. A
connection reads the file twice without the lock (`ensure_trusted`, then
`trusted_host_keys`), meets the host, and pins, finishes or reports. `add_host_key` and
`remove_host_from_known_hosts` are `Acquire`, `Verify`, `Write`, `Sign` under `_lock`;
accepting a key is both of them in turn. "Trust current file" (`TrustFile`, `Rewrite`,
`Resign`) does not take the lock. `Restart` may come at any point. A host presents any
of the keys in `Presents`, at every connection anew: it was reinstalled, or its
address is another machine's.

Left out of `KnownHosts`: key types (a host has one), refusals of the integrity key
(the key is had once before anything here is reached; see `Vault`), hosts.json (`Profiles`),
and strict mode being switched during a session. A worker's
signal about a changed key is the worker's own record until the UI thread takes it,
so a thread has at most one such signal waiting; a dialog is answered before
the next one is taken, so dialogs do not stack. The two attempts of `pin_host_or_warn`
are two connections.

### `TransferQueue` - the queue and its workers

`row` is the text of the status column, which the code itself goes by: the context
menu offers Cancel, or Restart and Delete, after the text the row had when the menu
was opened (`menu`), and signals are handled in the menu's event loop. `held` is
`active_workers`. `worker` is the threads, from the pinning of the host key to
the last signal; `inbox` is what they have queued for the UI thread. A signal
carries the id of a row, and a restarted row keeps its id, so `OnFinished` pops
whichever worker is held under the id and waits for its thread (`waits`), during which
the UI thread does nothing else. `saved` is `transfer_history.json`; `Reopen` is the
end of the program at any point and its next start. The loaded rows get new ids in
the program; the model keeps the old ones, since nothing refers to them any more.

What the code does where one might expect otherwise, and the model shows:
Restart is offered while a row says "Cancelling..." or "Dry Run...", so
a row can have two workers; the finished signal of the first then pops the second,
and the window stands still until that transfer ends. A cancel before rsync was
started is lost. `_clear_finished` takes a running dry run for a finished one. "Failed: ..."
and dry runs are "Interrupted" after a restart of the program, and a restarted
transfer is not in the history until it ends. No doc, comment or test promises
otherwise, so these are not findings; the properties say exactly how far it goes.

### `ChatTree` and `ChatSession` - chats

`ChatTree` is the tree of `core/chat_tree.py` as operators: `parent`, `role`, the lists of
children (`kids`) and the selected message. Messages are numbered in the order they were made,
which is also what `created` says as long as the clock does not step back. `Saved`
and `Loaded` are `to_dict` and `from_dict`; the file has no lists of children, so
`Loaded` makes them again.

`ChatSession` is the windows and the store. `window[w]` is what a `ChatWindow` holds:
the chat and its tree, the messages last drawn (`seen`, whose links can be clicked),
the edit under way, and the worker with the reply it is asked for (`reply`). "New chat"
replaces the tree and leaves the worker and its reply where they are, so
`OnDone` may find that the question is in no tree of the window; the code then ends
in a `KeyError`, which the program's hook logs. A save is the file and then
the index, and may stop before either (`Saves`). `prompt` is a history variable:
what was sent to get a message. `shared` is one, too: the chats two windows had, or
that were deleted under a window.

What the code does where one might expect otherwise, and the model shows: a chat open in two
windows loses the replies of whichever saves first, and deleting an open chat lasts
until its next reply. The part of a reply that was received when "New chat" was pressed is lost,
although its tooltip says that the conversation stays in Saved chats (it does, up to the
previous reply). The message box is not modelled: a question that is taken back returns
to it only if it is empty.

### `ChatServer` - servers, keys and context sizes

The rest of a chat window: which server it talks to. `asks` are the questions
under way to any server; the handler of an answer looks at the window as it is when
the answer comes. A key is named after the server it is for, so a key at the wrong server can be
told. `request` is a history variable, what the step sends and what was known when it was
looked at: `_fits` is asked before the box about the key, during which the model or its
limit may change (`boxed`). `OllamaContext` is `ollama_context` with the code's numbers.

What the code does where one might expect otherwise: a late model list of the former
server is stored as that of the new one (`_on_models` uses `self.service`), the key shown is
saved when another server answers, a forgotten key comes back from another window that
still has it. The consent to send a key stays when the size of the same message is then refused.
The question what a model can do asks for no consent at all: that is the run `chat_key_in_clear`, and
`RequestsAreMeant` speaks of the other ways a key leaves.

### `Vault` - the integrity key

`ask[t]` is how far a thread is in `Vault.key` and `_adopt_unsigned`: the lock `vlock` is held over the
keyring's prompt, the move of the key from `hmac.key` to the keyring, and the
adoption. Each of these is a step, and the program may end between any two
(`RestartVault`, `HalfWritten`). A session has a keyring or has none, and what a file's
signature is worth (no file, none, one of no key, or a key's) stands for its contents.
`recorded`, `lost` and `unsaved` are history variables: what a save of the record named, the names a
write of it has lost again, and the keys `hmac.key` could not be written with. The record in the keyring is replaced
whole. The one in a file is written in place (`write_text`), and what cannot be parsed reads as an empty
record, so a write that fails or is cut short in the middle forgets every name (`SaveRecord`), and the next
session adopts those files anew. The same happens if the record was never saved, or the key changes its place;
`AdoptionIsOnce` says exactly when not.

### `Profiles` - hosts.json

An edit is `Begin` (re-read, verify, change in memory), `WriteHosts`, `SignHosts`; a connecting
thread reads, checks and *replaces the profiles in memory* without a lock (`ReplaceProfiles`), also between
an edit and its save. `replaced` remembers that it did: then the file may be
written without the edit. `Edited` is a user name only another program writes, so a
signature over it can be told; `approved` is the user's "Trust current file". `Dash` is
the MAC cell of a host without a MAC, which `put` takes for a MAC (see Seen on the way). Aliases
are left out.

### `Devices` - the register of devices

`Sight` is one host of a scan in `observe`: a device is kept under its MAC, or under its address until a
scan with privileges names its MAC, and is then folded. The register may not be
loaded yet when all devices are acknowledged, which overwrites it (`forgotten`). `vouched`
and `sighted` are history variables of what the user, a profile or the first scan accepted and of what
scans saw; `KeyChange` is what the dialog about a changed key is told.

### `SmartReading` and `SmartHistory` - a disk's log

`SmartReading` is what smartctl's JSON, its text, and the udisks dump tell of one drive, with the
rounding of each; `SmartHistory` feeds the readings to `record` and to the tab. A reading is two
damage counters and the terabytes written. `Loaded` of a file that was cut short is empty,
and the next record overwrites it. Between 1 TB and 1 PB all formats round alike
(`FormatsMeet`); outside, a change of the format makes a new entry, although the
docstring of `_three_significant` says that both are the same number. The run counts the
drive's hours in seconds; temperatures and wear are left out.

### `Scans` - nmap and permission

`scan[k]` is a thread: refused at once for its arguments, tried with one method after another,
run, denied or cancelled. `newest[t]` is the thread a tab holds. The inspector does not start another while
that one runs; the scanner's shortcuts (Ctrl+R, Ctrl+Shift+R) look at nothing, so a tab can have several threads, of
which only the newest can be cancelled. Shared are sudo's memory (`cached`), the note that sudo is to forget
(`used`), and the password of the insecure mode (`held`, which may be right or wrong).
The mode can be changed, and the program ended, at any point.

To a wrong password on its standard input sudo asks for another, finds none, and says in the end that none was
provided; `classify` looks for that first and takes it for a question the user cancelled. Which of
its messages is read is a choice (`Outcomes`): denied, then the held password is dropped, or cancelled, then it is held on.
A scan that is cancelled after sudo refused is not read at all. `refused` is a history variable that tells these
apart, and `HeldWhileGood` promises no more than the code keeps: what was read as refused is not held.
`left` is a history variable, too: sudo let in a scan that then failed or was cancelled while none that
succeeded was noted, or `sudo -k` was asked in vain. Then sudo goes on remembering after the end for as long as it does;
`NothingLeftBehind` allows that and no more.

### `ScanTable` and `AITab` - the scanner's table, and who reads it

`results` are those of the last scan, `rows` what is shown, `pings` the pings under way, each
with the row number it was started for. `ShowResults` begins to fade the old rows,
`FadedOut` builds the table, `FadedIn` starts the pings. `PopulateResults` joins profiles and hosts by MAC, last
address or address, as the code does. A dialog of a row keeps the row's number and
reads the row again when it is answered. Every host has a key (`HostKey`), and of two hosts with one key
the table keeps one: two addresses of one MAC are one row, that of the higher address. `EveryHostHasARow` says for
which hosts this happens and that every other one has its row. `strayed` is a history variable: the table changed
while pings were under way, so a time may be in another row. `AITab` extends the table:
its hosts are asked for AI servers, one discovery at a time, while the table changes.

### `ProbeTab` - the Host Monitor and Disk Health tabs

Every host with a user name has a row and at most one worker the tab holds. A worker's
answer and its end are queued; the question about a changed key is a nested event
loop (`asking`). The end of a worker removes the entry of its address,
whichever worker it holds (`overtaken`).

### `Targets` - what a scan is given

The subnet field follows the network until the user types in it. The timer that follows it goes by the button
to cancel a scan: with a second scan started by a shortcut, the end of either hides that button while the other
runs, and the field may change beneath it (`crowded`; `FollowsBetweenScans` excepts it). What the scan in progress
was given is its own copy. The inspector's list
is editable and is rebuilt from the profiles. A label is a sequence, the alias and the
address of a profile; the arguments made for nmap are options, ranges and an address, and `ValidArgs` is the check of
`core/privilege.py` that they meet after the user was asked for permission. Nobody looks at the subnet's text
before the question, so a text that is no address is refused only afterwards; `AskedIsAccepted` says that this is
the only reason.

### `TransferPlan` - from the dialog to the command

A transfer is a form of the Add Transfer dialog, then the data of a row, then perhaps a
transfer of a list, its file, and the command. A device of the form is an entry of the hosts offered,
whose address is taken from the first parentheses of its label. `DictToSchedule` reads
files of earlier versions, and leaves out what does not validate, the options of its transfers included. A
command carries whether its path is quoted (`quoted`) and where a shell could expand it (`Expands`, what rsync and the shell
do): `build_command` quotes the path in the line a sender's shell is given, and starts rsync here without a
shell. What one might expect otherwise: a wildcard works only from another machine to this one, between any other two rsync
looks for a file of that name; an address offered for two accounts runs as the last of them; a sender
without an account is `''@address`; an alias with parentheses hides the address; and an interval above 9999 is
clamped by the dialog. `CommandIsMeant` and `ListsSurvive` say each of these and nothing weaker: the pattern is
expanded exactly there, and the account is the chosen one or that of a later device at the same address.

### `MCStores` and `MCTabs` - several components in a run

`Vault`, `Profiles`, `Devices` and `SmartHistory` share no variable, and neither do the parts of `MCTabs`,
but for the AI tab that reads the scanner's table. A run of them checks one part
in each behaviour: `part` is chosen from `Parts` at the start and the others stay in an
initial state, so the state space is the sum of the parts and not their product.

## What is checked

| run | module | question | result |
|---|---|---|---|
| `schedules` | `MCSchedules` | one runner per list, memory on disk and nothing run after a failed load, dialogs name lists that exist, only Run Now can double a run | holds |
| `schedules_live` | `MCSchedules` | is a due list served, does an ended run free its list? | holds |
| `schedules_skip` | `MCSchedules` | does advancing `last_run` at startup keep the timer from firing the list, as the comment says? | violated |
| `schedule_run` | `ScheduleRun` | does the threaded run keep `ListRun`, do the rows settle, is every run recorded? | holds |
| `known_hosts` | `MCKnownHosts` | does the signature follow, are pins kept and justified, does every connection end? | holds |
| `known_hosts_alarm` | `MCKnownHosts` | does "modified outside LanScanMan" mean that? | violated |
| `transfer_queue` | `TransferQueue` | does a row that says it is going on have a worker, and settle; is the registry the workers that run; who can get a second worker; does the history tell? | holds |
| `chats` | `ChatSession` | does a reply stay with the conversation it answers, are trees whole, does an edit stay home, is nothing saved lost, is a stopped window free again? | holds |
| `stores` | `MCStores` | is the key kept and a file adopted once, is the keyring asked by one thread; is a save of the profiles the edit, and nothing from outside signed; does the register say what was vouched for and seen; does the log tell what the disk did? | holds |
| `tabs` | `MCTabs` | is a permission given up; is the table that of the last scan with a row for every host that shares no key; was every host of the list asked for AI servers; is a running probe held and its row answered; does a list fire at its slots; are the arguments accepted and the network followed; is the command what was configured; does a key stay with its server? | holds |
| `inspector_host` | `MCTabs` | is the host scanned the one shown, as the docstring says? | violated |
| `chat_key_in_clear` | `MCTabs` | is the user asked before a key goes out in the clear, as the docstring says? | violated |

The four violations are the findings of `PROJECT.json`:

1. The startup handler works through a snapshot; while it asks about one list, the
   minute timer fires below the dialog and starts another list that the handler
   was about to skip.
2. A connection that reads `known_hosts` while another thread pins a host sees new
   contents with the old signature and reports tampering. It takes two threads: the
   first contact of one host during a connection to another.
3. A text typed into the inspector's host list, or put back after the list was
   rebuilt, leaves the current entry alone: the scan is of that entry's host, while
   the field and the status name the text.
4. Choosing or typing a model of an Ollama asks the server what the model can do, and the question
   carries the API key over plain HTTP although nobody was asked, or the answer was no.

### Bounds, and why they are enough

* `tabs`, the clock: a day of four instants with an hour of two, eight and a half days. Every
  comparison in the rules is between a slot, `last_run` and now; four instants allow
  before, at, between and after, and nine dates allow the same weekday twice.
  Days of week sets include one day, adjacent days and a weekend.
* `schedules`: two lists, two runners a list, a clock of two instants, one failing
  write between good ones. Every property is about one list or the interference of
  two; two runners of a list is already what the code tries to exclude. A third
  frame cannot be stacked, since there are three handlers.
* `schedule_run`: lists of up to two transfers, one of them invalid, a run log of
  one entry instead of `MAX_RUN_LOG` = 10. One entry reaches the cap in two runs. The
  promise is proved for all lengths.
* `known_hosts`: one worker and the UI thread, which contend for everything two
  threads can; two hosts, one known to the user's ssh with the first of its
  two keys, one new. With two workers the same safety properties were
  checked outside the configurations kept here (5.9 million states), and the proofs
  hold for any number.

* `transfer_queue`: one row and two workers, and a worker is started while at
  most one signal waits. Rows share nothing but the UI thread's wait; two workers
  are what an early restart gives a row, and with the first one's id in use again a
  third one would only repeat it. Two rows and two workers were checked for safety outside
  the configurations kept here (13.2 million states), and the proofs hold for any number.

* `chats`: two windows, two chats and four messages. Two windows can share a chat; the
  second chat is what "New chat" and a late answer need. Four messages are a conversation of
  two turns, two branches of one turn, or a question with up to three replies. What four
  do not reach is an edit *sent* below the first message: one window with two chats
  and five messages, and with one chat and six, were checked outside the
  configurations kept here.
* `stores`: two threads, two files and two keys in the vault: the second key is the one drawn when
  a keyring comes or goes. One MAC, one address and the dash, two users and one
  connecting thread in the profiles, at most two users in all: a MAC and an address
  are enough for a profile to be moved, and two users for one to be lost. Two MACs and two
  addresses in the register, in scans of one host or two: a device can change its address, and two
  can share one. One disk with two levels of wear, below and above 1 TB, one bad
  sector more, one second and three entries: reading in another way, and getting worse, both
  fit. Threads, keys and users are interchangeable (`Symmetric`); no liveness is
  checked in this run.
* `tabs`: two scanning tabs with two threads in all, so that one tab can have both, and four sets of installed
  programs (all, none of the askers, no sudo, no desktop); two MACs, two addresses, one profile and two pings, so that
  hosts can exchange addresses and a row can be gone when its ping returns; scans that find one
  MAC at two addresses, or a host without a MAC beside one with it (`MCFounds`); one host
  with two probe threads (the tab holds one, the other is ending) and two open
  questions; two networks and the fallback, texts that differ from them by white space, and two scans of the subnet
  beside each other; two profiles, one with an alias; three tables
  of hosts (a host without a profile, two accounts of an address, an alias with parentheses), two lists of one
  transfer, directories, files and patterns in the directions that differ; two servers, one an Ollama met in the clear, one model,
  one question at a time, and two prompts, one that fits Ollama's default context and one that needs
  16384 (`MaxDoublings = 1`). One thread more would repeat what the second does to the first; the proofs hold for any number.

### Fairness

* `Schedules!FairSpec`: the UI thread runs handlers that have not finished, rsync
  ends, the timer fires, and queued `list_finished` events are handled. `ListFinished`
  has strong fairness because Qt serves posted events in order whenever an event
  loop runs, while the action is disabled each time a handler is inside its
  loop. Dialogs are answered: that is an assumption about the user, without which the
  timer waits for ever, as it does in the program.
* `ScheduleRun!FairSpec`: the runner thread runs, rsync ends, the UI thread takes
  its events. Nothing is assumed of the user.
* `KnownHosts!FairSpec`: threads run; a thread that waits for `_lock` gets it
  eventually although others take it in between (strong fairness: nobody holds it for longer
  than two writes, and every contender stops contending); dialogs are answered, and a queued
  signal is taken some time.

* `TransferQueue!FairSpec`: a worker's thread ends (rsync ends, and a connection has
  its timeouts), and the UI thread handles what is queued. Nothing is assumed of the user.
* `ChatSession!FairSpec`: a worker that was stopped ends (its connection is closed, and
  reads have a timeout), and the UI thread handles its last signal. A server may
  stream for ever, and nothing is assumed of the user.
* `MCTabs!TabsFairSpec`: the threads of probes run (their connections have timeouts) and
  their signals are delivered, also while a question about a key is open: its event loop
  serves them. Nothing is assumed of the user, of the timer or of the other parts.

## What is proved

All theorems hold for every value of the constants that satisfies the modules'
named assumptions, which TLC evaluates in the runs.

* `Schedules_proofs`: `TypeCorrect`, `OneRunner`, `NamesExist`, `OverlapsAreRunNow` and
  `FileIsTheTruth`, for any number of lists, runners and instants.
  `OneRunnerPerList` is not inductive: that a list which was never doubled has its one
  runner in the registry holds only if the frames name lists that exist
  and the confirmation that is open was opened for a list without a runner or with
  one started beneath it. The invariant `IInv` is the type invariant,
  `DialogsNameLists`, `SnapshotIsHeld` (a handler's snapshot only has lists that exist, because
  nothing can be deleted under it), `OneRunnerPerList`, `AskedListIsFree` and
  `QuietUnlessLoaded`; each action has its step. `FileIsTheTruth` adds that `schedules.json` is
  what the panel shows, from its own invariant. `ListsFireAtTheirSlots` is `FiresAtItsSlots` for a
  day of any number of instants (86400 seconds among them), any trigger that validates and every moment:
  an instant is a day and a time of it in one way (`DayOf`, `AtInstant`), some offset of the eight that
  `next_due` tries has a slot after now (`WeekdayComes`) and the least such is the first of all slots
  (`FirstSlot`), and what silences a list is a run since the slot of its day (`DueAtSlot`). So the coarse
  clock of the runs loses nothing.
* `ScheduleRun_proofs`: `RunImplementsPromise`, that the threaded run implements
  `ListRun` for lists of any length. The mapping reads the runner's `work` as long as
  the panel has the run registered, so the invariant `RunInv` must say that what
  `list_finished` carries is what the runner recorded (`OverIsLast`), that the loop's
  status sums up its results (`LoopStatus`, `OverStatus`), and that an unregistered runner
  left nothing behind (`GoneWhenUnregistered`). `RowsTellTheRun` proves `RowsFollowTheRun` from it and
  from `RowsInv`: every signal that waits is true of the run (`AllTruthful`), which it stays because
  a run only goes on (`GoesOn`, `TruthStays`). The types these need are `WorkTypes`; the bounds of
  `TypeOK` on lists are the instance's, and are not proved.
* `KnownHosts_proofs`: `TypeCorrect`, `SignatureFollowsWrites`,
  `PinsSurviveWrites` and `PinsHaveReasons`, for any threads, hosts and keys. The invariant `IInv` says that
  the lock is held by exactly the thread that rewrites the file (`LockIsHeld`), that
  only the UI thread shows dialogs (`DialogsAreUIs`), that trusting and
  rewriting exclude each other unless the history variable `mixed` says they did not
  (`TrustIsAlone`), and that whoever is about to write has seen what is in the file
  (`WriterHasSeen`). The last one is what both theorems need: a signature is made
  from the contents the thread remembers, and a new pin is added to them.
  `PinsHaveReasons` has an invariant of its own (`Pinning`): not only the file's keys but those
  a thread has read, and the one it is about to write, were confirmed, sent or trusted.
* `TransferQueue_proofs`: `TypeCorrect`, `GoingRowsAreWorked`, `WorkersStayHeld`,
  `EarlyRestarts` and `HistoryIsTold`, for any rows, workers and queue. The
  first invariant, `Worked`, adds to `GoingIsWorked` that whoever is in active_workers
  is of its row (`HeldIsOfRow`: a cancel finds a worker of this row) and that a progress
  signal has its worker, or a finished signal, behind it (`ProgressIsFollowed`: a
  late progress signal cannot bring a settled row back for ever). The second, `Singly`,
  adds for the rows that were not restarted early that one finished signal at most is queued
  (`OneFinished`), and that the row and the open menu still say that the transfer goes on
  (`RowSaysSo`, `MenuSaysSo`): it is why Delete finds the registry in order and why Restart
  needs one of two texts. `SharedByRestart` is an action property, proved from `Singly`.
  `HistoryTells` is inductive with the types: it says nothing while `_on_finished` waits, and
  only that step settles a row without saving in the same step.
* `ChatTree_proofs`: what the operators on the tree of a chat do, for trees of any size:
  `Add`, `RemoveLeaf`, `Select` and `SwitchSibling` keep it a tree whose children are listed by
  age, `Path` of a message does not change when leaves come and go, `LatestLeaf` ends at a leaf,
  `RemoveUndoesAdd`, and `LoadedIsSaved`: from_dict makes the same tree, order of the
  children included, of what to_dict wrote. A message is younger than its parent; the
  recursive functions `Path` and `LatestLeaf` are reasoned about with the least message for
  which a claim fails (`LeastOf`) instead of induction.
* `ChatSession_proofs`: `RepliesStay`, `TreesStayWhole`, `EditsStay`, `IndexStaysBehind` and
  `SavesAdd`, for any windows, chats and messages. None of the five invariants is inductive. `IInv` adds
  what each window's reply is to its tree: what is asked hangs there as it was sent, if it
  hangs there at all, since New chat may have replaced the tree (`AsksItsPath`); a question
  asked for the first time has no reply yet, so taking it back is allowed (`FreshIsLeaf`); the tree
  that is left when it is taken back (`Settled`) ends all its branches in replies, as every file does
  (`FileOK`); an edit is under way only while no question can be taken back, which might be the one it
  branches from (`EditIsSafe`); and the one window on a chat that was never shared has, even
  after taking a question back, all that its file has (`AtHome`), which is why a save only adds. TLC
  checked `IInv` on the instance of `chats` first.
* `Stores_proofs`: `VaultTypeCorrect`, `KeysSurvive`, `AdoptedOnce` and `OneThreadPrompts`, for any
  threads, files and keys. `VaultInv` says that whoever is inside holds the lock (`LockIsHeld`), that the
  key is in both places between the halves of its move (`MoveIsCopy`, without which the second
  half could remove the only copy), and that only what no record names is adopted
  (`AdoptsNew`, `RecordsStay`, which excepts the names a write cut short has lost). The last two theorems are action properties. The same module has
  `OutsideStaysUnsigned` and `EditsAreSaved` about the profiles, for any hosts, users and
  connecting threads. Every edit keeps what the profiles held free of the other
  program's user (the lemmas on the edits, ending in `EditKeeps`); `SignedIsClean` and
  `EditIsOfTheFile` carry it over the re-read, the two writes and the threads that
  replace the profiles. `RegisterStaysVouched` is about any addresses, profiles and scans of the
  device register, of any length. What holds of a register is followed host by host through a scan
  (`ObservedSteps`, `HostHolds`): whom it knows was vouched for (`VouchedIn`), it forgets nobody it knew
  (`Continues`), and it has an address for a MAC exactly when a scan saw it there (`Owns`). `IsRegister`
  is the strengthening that this needs: an entry kept under an address has had that address only, so folding
  it into a MAC's entry passes on neither an address the MAC never had nor an acceptance that was not
  of this address; `SeenIn` does it for the first scan, which accepts a device whose MAC it did not see. The
  count of owners behind `KeyChange` is the count of sights by a bijection (`InvIsHistory`).
  `HistoryStaysSound` is about a drive of any age, read in any order of ways. `HistoryInv` says that the
  log under each key is what that way of reading tells of the drive (`ReadAs`), that its
  counters never pass what the last result told (`BoundedBy`, kept also for the result a hidden row shows
  again), and that what was notified is exactly the rises in the file, so one that was notified
  is there for the report to find. Between 1 TB and 1 PB JSON and text both round with `Sig3`, so
  entries of one drive would be alike (`InvOnlyChanges`).
* `Tabs_proofs`: `PermissionsEnd`, for any number of threads and whatever is installed: the
  invariant adds that what sudo remembers was noted or is known to be left
  (`RememberedIsNoted`). `RunningStaysHeld`, for any hosts and questions: a refresh starts a thread
  only if the one held has stopped, and then none runs, because a running one is held.
  `ListStaysCurrent` is proved of `AITabSpec`, in which the whole table runs beside the AI tab: the run
  composes only the steps that gain and lose rows. Its invariant says that a table is a list of rows of
  finitely many hosts (`TableShape`), which is what `PopulateResults` needs to make one. A step that
  does not signal `hosts_changed` brings no address that was not there (`NoNewRow`), and one that does
  marks the list stale. `ScansStayMeant` is proved of `TargetsSpec` without bounds on networks, texts, profiles or
  ports: each list of arguments is gone through to its end (`FlagsAreGood`, `PairsAreGood`,
  `EndsAreValid`), ports that pass in the arguments checked before the question pass in those of the scan
  (`TypedPortsAreOk`), and the user's text stands exactly while the field differs from what the program put
  there (`Followed`); that the timer leaves a scan alone needs
  that the button is shown while one runs that was not started beside another (`Counted`). `RequestsStayMeant` is about any servers, models and prompts: `ServerInv`
  adds the types of what answers late, and that a question that is under way carries only what
  its server may have (`Meant`); `ContextOfPrompt` is the contract of `ollama_context`, for any number of
  doublings that reaches the longest prompt. `PlansStayKept` is about any hosts, forms, triggers and files of
  earlier versions: what is queued is the data of a form that offered its devices (`QueuedIsOfForm`), from
  which `CommandHolds` follows for every place rsync may run at; what the file holds passes its own check and
  is whole (`GoodLists`), which reading any file ensures (`ParsedIsGood`) and every step keeps, and what is good is
  read as it was written (`GoodAreRead`). `ShownSurvives` is that the dialog accepts what it shows. `PlanAssumption`
  asks of an old file that its numbers are integers, because the loader converts them, and of a host
  that it is not this machine.

Only model-checked: what is joined in the scanner's table, where counting is over bags
and would need induction over data, and all liveness (`ListsAreServed`, `RunIsRecorded`,
`ConnectionsEnd`, `GoingEnds`, `StopFrees`, `RowsAreAnswered`), which is out of the prover's reach.
`TableHolds` states an invariant together with what a step keeps.

## What could come next

1. A composition of `KnownHosts`, `Profiles` and `Vault` behind `ensure_trusted`, which
   every connection passes: here each is checked with the others in order.
2. A proof of `TableHolds`.
3. The SSH-key setup, the dialogs that probe one host by themselves (`host_stats`,
   `smart_disk`), exporting a table.

## Seen on the way

Behaviour that is not among the findings, because no doc, comment or test of the repository
excludes it, or because no run is kept for it, but that a reader of the code may want to know:

* Order. Results that come within the fade of earlier ones leave a timer that
  raises `RuntimeError`; pings are counted across rounds and written to a row by its number;
  connecting, editing and deleting from a row's menu use the row's number after a
  dialog. "Trust current file" does not take `ssh._lock`; two first contacts of a host
  both pin it. A conversation may end in a question after a refused regeneration. Removing a
  transfer in the run detail dialog during a run shifts its rows.
* Time. A list whose slot was on an earlier day than today is not reported as missed.
  A clock that is set back, and daylight saving, are not considered by the due rules.
* Names. A host without a MAC is saved under "—", the text of its MAC cell: `key_for` (`core/profiles.py:92`) takes what it
  is given, and `edit_profile` gives it the cell, so all such hosts share one profile, and deleting it looks under the
  address and removes nothing. (`tests/test_profiles_and_net.py:80` says that a placeholder falls back to the IP; the
  operators of `Profiles` follow the code, and no run is kept for it.) A MAC-less host at the last address of a profile shares its row; a
  profile without a MAC and a privileged scan make two rows of a host. The same
  server under https and http is listed twice; one that was added by hand goes with the next
  full discovery; one that is added during a discovery is not asked.
* Failures. An `OSError` while the devices are saved skips the marking and fading in of the
  results; a SMART log that does not parse is overwritten; a run that the program's
  end interrupts is not recorded, and its rsync may go on. A password whose scan is
  rejected stays in the thread object.
* Permission. A refused password of the insecure mode can be taken for a cancelled question and held on, where
  `core/privilege.py:22` says that it is dropped on rejection; sudo can go on remembering after the end an
  authentication for a scan that failed, where lines 26 to 27 say that the app clears it on exit. Options are
  checked in the thread after the question for permission, where lines 29 to 30 say before it (custom ports are).
* Promises of a dialog. The Add Transfer dialog offers wildcards for every sender; `_preflight` skips its look at the path
  for them, and `shlex.quote` (`core/rsync.py:50`), or the missing shell here, makes rsync look for a file named like the pattern.

## Not modelled, and why

Parsers and formatting (`core/probe.py`, the parsing in `core/smart.py`, the text of `core/drive_report.py`,
`core/wifi.py`, `core/net.py`, `core/formatting.py`, `core/connect.py`) turn text into text;
what depends on them is displayed. Browsing for a path, opening a terminal and exporting
a table keep nothing. `security.json` is one more signed file: the model has its name in `Names` and
not its two settings, which do not change during a behaviour but for the permission's mode (`Scans`). Titles, pictures and the encryption of chats are left
out of the chat modules, run logs' texts and progress lines out of the transfers. Theme, images, widgets, and dialogs that only
collect input have no state that outlives them. nmap, rsync, ssh, paramiko,
keyring and polkit are external: where a module needs them, they are a choice
among the outcomes the code distinguishes. Byte contents, HMAC and JSON are
abstracted: a signature is the contents it was made for.

## Running it

Each configuration names the module that `PROJECT.json` pairs it with, for example
`tlc -config KnownHosts.cfg MCKnownHosts.tla`; `tlapm KnownHosts_proofs.tla` checks a
module's proofs. `tabs` takes about three minutes (1.4 million states), `stores` two, `schedules_live` and
`known_hosts` a minute and a half, everything else less.
