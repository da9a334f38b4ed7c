---------------------------- MODULE EntryDialogs ----------------------------
(***************************************************************************)
(* The dialogs that change a config entry: the one that adds an account,   *)
(* the reauth, the reconfigure that may move an entry to another login,    *)
(* and the options.  Each asks the portal and then writes to the entry -   *)
(* while others do, while the entry is reloaded or removed, and while the  *)
(* forms of all of them stay open for as long as nobody answers them.      *)
(*                                                                         *)
(* A commit holds the one login_commit_lock, a first-come, first-served    *)
(* asyncio.Lock; only a move of an entry awaits anything inside it.        *)
(*                                                                         *)
(* Expert slots and cached modules are abstracted to the account whose     *)
(* heating system they name.  Every entry has its unique id.  Home         *)
(* Assistant runs one setup or unload of an entry at a time, and refuses   *)
(* to unload one that is setting up.                                       *)
(***************************************************************************)
EXTENDS Naturals, FiniteSets, SequencesExt

CONSTANTS
    Entries, Accounts, Passwords, Modes,
    Dialogs, Kind,  \* what each dialog is: user, reauth, reconfigure, options
    On,             \* the entry it is about - for user, the one it creates
    Present,        \* entries there are at first
    Reloaded,       \* bound: entries the user reloads
    None            \* no entry, no slots, no cache

ASSUME DialogsAssumption ==
    /\ Kind \in [Dialogs -> {"user", "reauth", "reconfigure", "options"}]
    /\ On \in [Dialogs -> Entries]
    /\ Present \subseteq Entries /\ Reloaded \subseteq Entries
    /\ None \notin Accounts

VARIABLES
    entry,      \* data and options of each entry
    running,    \* the account its api was built for
    phase,      \* out, loading (in setup), loaded; removed, for good
    due,        \* a reload of it is scheduled
    cache,      \* the installation its module store describes
    pc,         \* where a dialog is
    form,       \* what it holds
    queue,      \* login_commit_lock: the holder, and who waits
    tried,      \* history: the logins, with their modes, the portal has accepted
    strayed,    \* history: dialogs that read or asked for another login than
                \* the one they were opened for, entries they were saved to
    raced       \* history: entries reloaded while their move forgot

home == <<running, phase, due, cache>>
dialogs == <<pc, form, queue>>
history == <<tried, strayed, raced>>
vars == <<entry, home, dialogs, history>>

Configs == [account : Accounts, password : Passwords, mode : Modes,
            slots : Accounts \cup {None}]

ASSUME ConfigsAssumption == None \notin Configs

Data(c) == <<c.account, c.password>>

(* login_state *)
LoginState(c) == <<Data(c), c.mode>>

Exists(e) == entry[e] # None
Blank == [none |-> None]

(* An id is never given to a second entry.                                 *)
New(e) == ~Exists(e) /\ phase[e] # "removed"

Init ==
    /\ entry \in [Entries -> Configs \cup {None}]
    /\ \A e \in Entries : Exists(e) <=> e \in Present
    /\ \A e \in Present : entry[e].slots = None
    /\ \A e, o \in Present : e # o => entry[e].account # entry[o].account
    /\ running = [e \in Entries |-> IF Exists(e) THEN entry[e].account ELSE None]
    /\ phase = [e \in Entries |-> IF Exists(e) THEN "loaded" ELSE "out"]
    /\ due = {} /\ cache = [e \in Entries |-> None]
    /\ pc = [d \in Dialogs |-> "closed"] /\ form = [d \in Dialogs |-> Blank]
    /\ queue = <<>>
    /\ tried = {LoginState(entry[e]) : e \in Present} /\ strayed = {} /\ raced = {}

-----------------------------------------------------------------------------
(* A dialog and the portal *)

Goes(d, where) == pc' = [pc EXCEPT ![d] = where]
Holds(d, what) == form' = [form EXCEPT ![d] = what]
Ends(d) == Goes(d, "closed") /\ Holds(d, Blank)
Here(d) == entry[On[d]]

(* async_set_unique_id: a login another dialog is on its way to.           *)
Claimed(a, d) == \E o \in Dialogs \ {d} :
    /\ pc[o] \in {"checking", "waiting", "forgetting", "forgot"}
    /\ Kind[o] \in {"user", "reconfigure"} /\ form[o].account = a
    /\ Kind[o] = "reconfigure" => form[o].seen[1][1] # a

(* _account_already_has_an_entry *)
Taken(a) == \E e \in Entries : Exists(e) /\ entry[e].account = a

(* What a form is sent with, and what the entry was by then.               *)
Sent(d, a, p, m, seen) ==
    Holds(d, [account |-> a, password |-> p, mode |-> m, seen |-> seen])

OpenUser(d) ==
    /\ Kind[d] = "user" /\ pc[d] = "closed" /\ New(On[d])
    /\ \E a \in Accounts, p \in Passwords, m \in Modes :
          /\ ~Claimed(a, d) /\ ~Taken(a)
          /\ Sent(d, a, p, m, None)
    /\ Goes(d, "checking")
    /\ UNCHANGED <<entry, home, queue, history>>

(* Reauth: the same account.  It checks against the mode the entry has.    *)
OpenReauth(d) ==
    /\ Kind[d] = "reauth" /\ pc[d] = "closed" /\ Exists(On[d])
    /\ \E p \in Passwords :
          Sent(d, Here(d).account, p, Here(d).mode, LoginState(Here(d)))
    /\ Goes(d, "checking")
    /\ UNCHANGED <<entry, home, queue, history>>

OpenReconfigure(d) ==
    /\ Kind[d] = "reconfigure" /\ pc[d] = "closed" /\ Exists(On[d])
    /\ \E a \in Accounts, p \in Passwords :
          /\ a # Here(d).account => ~Taken(a) /\ ~Claimed(a, d)
          /\ Sent(d, a, p, Here(d).mode, LoginState(Here(d)))
    /\ Goes(d, "checking")
    /\ UNCHANGED <<entry, home, queue, history>>

(* The options' menu keeps the login it was opened for.                    *)
OpenOptions(d) ==
    /\ Kind[d] = "options" /\ pc[d] = "closed" /\ Exists(On[d])
    /\ Goes(d, "menu")
    /\ Holds(d, [opened |-> Data(Here(d)), found |-> None])
    /\ UNCHANGED <<entry, home, queue, history>>

Stray(d) ==
    strayed' = IF Data(Here(d)) = form[d].opened /\ <<On[d], "saved">> \notin strayed
               THEN strayed ELSE strayed \cup {<<d, "form">>}

(* A search for expert parameters, with the login the entry has by now.    *)
Discover(d) ==
    /\ pc[d] = "menu" /\ Exists(On[d])
    /\ Holds(d, [form[d] EXCEPT !.found = Here(d).account])
    /\ Stray(d)
    /\ UNCHANGED <<entry, home, pc, queue, tried, raced>>

(* The form: the slots stored or found, or none; the mode stored.          *)
ShowOptions(d) ==
    /\ pc[d] = "menu" /\ Exists(On[d]) /\ Goes(d, "form")
    /\ \E s \in {Here(d).slots, form[d].found, None} :
          Holds(d, [opened |-> form[d].opened, slots |-> s])
    /\ Stray(d)
    /\ UNCHANGED <<entry, home, queue, tried, raced>>

Options(d, m) == [opened |-> form[d].opened, slots |-> form[d].slots, mode |-> m]

(* A mode that stays as it is costs no login.                              *)
SubmitOptions(d) ==
    /\ pc[d] = "form" /\ Exists(On[d])
    /\ \E m \in Modes :
          /\ Holds(d, Options(d, m))
          /\ IF m = Here(d).mode
             THEN Goes(d, "waiting") /\ queue' = Append(queue, d)
             ELSE Goes(d, "checking") /\ queue' = queue
    /\ Stray(d)
    /\ UNCHANGED <<entry, home, tried, raced>>

(* What a dialog's check logs in with.                                     *)
Asks(d) ==
    IF Kind[d] = "options"
    THEN <<form[d].opened, form[d].mode>>
    ELSE <<<<form[d].account, form[d].password>>, form[d].mode>>

(* validate_input: the portal takes the login, or the form is shown again. *)
Accepted(d) ==
    /\ pc[d] = "checking" /\ Kind[d] # "user"
    /\ Goes(d, "waiting") /\ queue' = Append(queue, d)
    /\ tried' = tried \cup {Asks(d)}
    /\ UNCHANGED <<entry, home, form, strayed, raced>>

Created(d) ==
    /\ pc[d] = "checking" /\ Kind[d] = "user" /\ New(On[d])
    /\ entry' = [entry EXCEPT ![On[d]] =
          [account |-> form[d].account, password |-> form[d].password,
           mode |-> form[d].mode, slots |-> None]]
    /\ due' = due \cup {On[d]}
    /\ tried' = tried \cup {Asks(d)}
    /\ Ends(d)
    /\ UNCHANGED <<running, phase, cache, queue, strayed, raced>>

Refused(d) ==
    /\ pc[d] = "checking"
    /\ IF Kind[d] = "options" THEN Goes(d, "form") /\ UNCHANGED form ELSE Ends(d)
    /\ UNCHANGED <<entry, home, queue, history>>

(* The user walks away from an open form.                                  *)
Closed(d) ==
    /\ pc[d] \in {"menu", "form"} /\ Ends(d)
    /\ strayed' = strayed \ {<<d, "form">>}
    /\ UNCHANGED <<entry, home, queue, tried, raced>>

-----------------------------------------------------------------------------
(* The commit *)

Has(d) == queue # <<>> /\ Head(queue) = d
Releases(d) == queue' = Tail(queue) /\ Ends(d)

(* Mutant: only the data is compared. *)
DataChangedSince(d) == ~(Exists(On[d]) /\ Data(Here(d)) = form[d].seen[1])

(* _changed_since: removed, or not what was checked against.               *)
ChangedSince(d) == ~(Exists(On[d]) /\ LoginState(Here(d)) = form[d].seen)

LoginAborts(d) ==
    /\ Has(d) /\ pc[d] = "waiting" /\ Kind[d] \in {"reauth", "reconfigure"}
    /\ ChangedSince(d)
    /\ Releases(d)
    /\ UNCHANGED <<entry, home, history>>

(* _commit_reauth: the password, and a reload.                             *)
CommitReauth(d) ==
    /\ Has(d) /\ pc[d] = "waiting" /\ Kind[d] = "reauth" /\ ~ChangedSince(d)
    /\ entry' = [entry EXCEPT ![On[d]].password = form[d].password]
    /\ due' = due \cup {On[d]}
    /\ Releases(d)
    /\ UNCHANGED <<running, phase, cache, history>>

Moves(d) == form[d].account # Here(d).account

CommitPassword(d) ==
    /\ Has(d) /\ pc[d] = "waiting" /\ Kind[d] = "reconfigure"
    /\ ~ChangedSince(d) /\ ~Moves(d)
    /\ entry' = [entry EXCEPT ![On[d]].password = form[d].password]
    /\ due' = due \cup {On[d]}
    /\ Releases(d)
    /\ UNCHANGED <<running, phase, cache, history>>

(* Mutant: what the entry kept is forgotten while it runs. *)
ForgetRunning(d) ==
    /\ Has(d) /\ pc[d] = "waiting" /\ Kind[d] = "reconfigure"
    /\ ~ChangedSince(d) /\ Moves(d)
    /\ Goes(d, "forgetting")
    /\ UNCHANGED <<entry, home, form, queue, history>>

(* _forget_the_old_installation: unloaded first ...                        *)
Unloads(d) ==
    /\ Has(d) /\ pc[d] = "waiting" /\ Kind[d] = "reconfigure"
    /\ ~ChangedSince(d) /\ Moves(d)
    /\ phase[On[d]] # "loading"
    /\ phase' = [phase EXCEPT ![On[d]] = "out"]
    /\ running' = [running EXCEPT ![On[d]] = None]
    /\ Goes(d, "forgetting")
    /\ UNCHANGED <<entry, due, cache, form, queue, history>>

(* ... and left alone if it will not, or if it is setting up.              *)
UnloadRefused(d) ==
    /\ Has(d) /\ pc[d] = "waiting" /\ Kind[d] = "reconfigure"
    /\ ~ChangedSince(d) /\ Moves(d) /\ phase[On[d]] # "out"
    /\ Releases(d)
    /\ UNCHANGED <<entry, home, history>>

Forgets(d) ==
    /\ pc[d] = "forgetting" /\ Goes(d, "forgot")
    /\ cache' = [cache EXCEPT ![On[d]] = None]
    /\ UNCHANGED <<entry, running, phase, due, form, queue, history>>

(* _without_the_installation *)
Without(options) == [options EXCEPT !.slots = None]

CommitMove(d) ==
    /\ pc[d] = "forgot" /\ Exists(On[d])
    /\ entry' = [entry EXCEPT ![On[d]] =
          [Without(Here(d)) EXCEPT !.account = form[d].account,
                                   !.password = form[d].password]]
    /\ due' = due \cup {On[d]}
    /\ strayed' = strayed \ {<<On[d], "saved">>}
    /\ Releases(d)
    /\ UNCHANGED <<running, phase, cache, tried, raced>>

(* Mutant: the lock stays taken. *)
MoveAbortsKeepsLock(d) ==
    /\ pc[d] = "forgot" /\ ~Exists(On[d])
    /\ Ends(d)
    /\ UNCHANGED <<entry, home, queue, history>>

(* Forgetting waits on disk, and a removal can land in between.            *)
MoveAborts(d) ==
    /\ pc[d] = "forgot" /\ ~Exists(On[d])
    /\ Releases(d)
    /\ UNCHANGED <<entry, home, history>>

(* _save_configure *)
CommitOptions(d) ==
    /\ Has(d) /\ pc[d] = "waiting" /\ Kind[d] = "options"
    /\ IF Exists(On[d]) /\ Data(Here(d)) = form[d].opened
       THEN /\ entry' = [entry EXCEPT ![On[d]].mode = form[d].mode,
                                      ![On[d]].slots = form[d].slots]
            /\ due' = IF entry' = entry THEN due ELSE due \cup {On[d]}
            /\ strayed' = (strayed \ {<<d, "form">>}) \cup
                  (IF <<d, "form">> \in strayed THEN {<<On[d], "saved">>} ELSE {})
       ELSE /\ UNCHANGED <<entry, due>>
            /\ strayed' = strayed \ {<<d, "form">>}
    /\ Releases(d)
    /\ UNCHANGED <<running, phase, cache, tried, raced>>

-----------------------------------------------------------------------------
(* The entry *)

Forgetting(e) == \E d \in Dialogs : On[d] = e /\ pc[d] \in {"forgetting", "forgot"}

(* A reload takes the entry down, waiting for its store writes, and builds *)
(* it for the login it has now: one that is scheduled, or the user's.      *)
Reload(e) ==
    /\ Exists(e) /\ phase[e] # "loading"
    /\ e \in due \/ e \in Reloaded
    /\ phase' = [phase EXCEPT ![e] = "loading"]
    /\ running' = [running EXCEPT ![e] = entry[e].account]
    /\ due' = due \ {e}
    /\ raced' = IF Forgetting(e) THEN raced \cup {e} ELSE raced
    /\ UNCHANGED <<entry, cache, dialogs, tried, strayed>>

SetupEnds(e) ==
    /\ phase[e] = "loading"
    /\ \E ok \in BOOLEAN :
          /\ phase' = [phase EXCEPT ![e] = IF ok THEN "loaded" ELSE "out"]
          /\ running' = IF ok THEN running ELSE [running EXCEPT ![e] = None]
    /\ UNCHANGED <<entry, due, cache, dialogs, history>>

(* A cycle of the setup or of the running entry saves its modules.         *)
Saves(e) ==
    /\ phase[e] \in {"loading", "loaded"}
    /\ cache' = [cache EXCEPT ![e] = running[e]]
    /\ UNCHANGED <<entry, running, phase, due, dialogs, history>>

Removed(e) ==
    /\ Exists(e) /\ phase[e] # "loading"
    /\ entry' = [entry EXCEPT ![e] = None]
    /\ running' = [running EXCEPT ![e] = None]
    /\ phase' = [phase EXCEPT ![e] = "removed"] /\ due' = due \ {e}
    /\ cache' = [cache EXCEPT ![e] = None]
    /\ strayed' = strayed \ {<<e, "saved">>} /\ raced' = raced \ {e}
    /\ UNCHANGED <<dialogs, tried>>

Commit(d) ==
    \/ LoginAborts(d) \/ CommitReauth(d) \/ CommitPassword(d)
    \/ Unloads(d) \/ UnloadRefused(d) \/ Forgets(d) \/ CommitMove(d)
    \/ MoveAborts(d) \/ CommitOptions(d)

Answer(d) == Accepted(d) \/ Created(d) \/ Refused(d)

Next ==
    \/ \E d \in Dialogs :
          \/ OpenUser(d) \/ OpenReauth(d) \/ OpenReconfigure(d) \/ OpenOptions(d)
          \/ Discover(d) \/ ShowOptions(d) \/ SubmitOptions(d) \/ Closed(d)
          \/ Answer(d) \/ Commit(d)
    \/ \E e \in Entries : Reload(e) \/ SetupEnds(e) \/ Saves(e) \/ Removed(e)

Spec == Init /\ [][Next]_vars

(* The disk answers, and the lock is handed on, first come, first served.  *)
Fairness == WF_vars(\E d \in Dialogs : Commit(d))

FairSpec == Spec /\ Fairness

-----------------------------------------------------------------------------
(* Properties *)

(* The types; the lock is held or awaited by dialogs that are committing,  *)
(* and only its holder forgets an installation.                            *)
TypeOK ==
    /\ entry \in [Entries -> Configs \cup {None}]
    /\ running \in [Entries -> Accounts \cup {None}]
    /\ phase \in [Entries -> {"out", "loading", "loaded", "removed"}]
    /\ due \subseteq Entries /\ cache \in [Entries -> Accounts \cup {None}]
    /\ pc \in [Dialogs -> {"closed", "menu", "form", "checking", "waiting",
                           "forgetting", "forgot"}]
    /\ DOMAIN form = Dialogs
    /\ queue \in Seq(Dialogs) /\ IsInjective(queue)
    /\ \A d \in Dialogs :
          Contains(queue, d) <=> pc[d] \in {"waiting", "forgetting", "forgot"}
    /\ \A d \in Dialogs : pc[d] \in {"forgetting", "forgot"} => Has(d)
    /\ tried \subseteq (Accounts \X Passwords) \X Modes /\ raced \subseteq Entries

(* No two entries log in to one account, whatever dialogs add entries and  *)
(* move them there at the same time.                                       *)
OneEntryPerAccount ==
    \A e, o \in Entries :
        e # o /\ Exists(e) /\ Exists(o) => entry[e].account # entry[o].account

(* What an entry logs in with is what the portal has accepted: this        *)
(* account with this password in this mode, whichever dialogs they came    *)
(* from (login_state).  Dialogs that came across another login are left to *)
(* SlotsStayWithTheLogin.                                                  *)
StoredLoginWasTried ==
    \A e \in Entries :
        Exists(e) /\ <<e, "saved">> \notin strayed => LoginState(entry[e]) \in tried

(* The expert slots - what may be written - name parameters of the heating *)
(* system behind the entry's login, unless the dialog they were saved from *)
(* has come across another login.                                          *)
SlotsAreOfTheLogin ==
    \A e \in Entries :
        Exists(e) /\ <<e, "saved">> \notin strayed =>
            entry[e].slots \in {None, entry[e].account}

(* An entry runs on the modules of its own installation: a move leaves     *)
(* nothing of the old one behind, unless a reload comes in between.        *)
CacheIsOfTheLogin ==
    \A e \in Entries \ raced : running[e] # None => cache[e] \in {None, running[e]}

(* The commit lock is handed on for as long as anybody waits for it - so   *)
(* every dialog the portal has answered ends: none is kept waiting by one  *)
(* that cleans up, by an entry that will not unload or by one that is gone *)
(* (login_commit_lock).                                                    *)
LockIsHandedOn ==
    []<>(queue = <<>>) \/ []<><<queue # <<>> /\ queue' = Tail(queue)>>_vars

(* Of the code this is false: a login that changes and changes back.       *)
SlotsStayWithTheLogin ==
    \A e \in Entries : Exists(e) => entry[e].slots \in {None, entry[e].account}

(* Of the code this is false: a reload between the unload and the move.    *)
MoveLeavesNothing ==
    \A e \in Entries : running[e] # None => cache[e] \in {None, running[e]}
(* Whatever dialogs are open at once, an account has one entry and an      *)
(* entry a login that was tried.                                           *)
LoginsAreSound == TypeOK /\ OneEntryPerAccount /\ StoredLoginWasTried

(* Nothing of one heating system is kept for another.                      *)
InstallationsStayApart == SlotsAreOfTheLogin /\ CacheIsOfTheLogin
=============================================================================
