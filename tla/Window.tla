------------------------------- MODULE Window -------------------------------
(***************************************************************************)
(* The window's own state (main.slint 808-1300) and the handlers of        *)
(* main.rs that write it beside connecting, pairing and the roster: the    *)
(* tray and its timer (tray/mod.rs), the disguise and its switch, the      *)
(* About screen, the member login, the session a wipe clears, the update   *)
(* notice and autostart (rfc011.rs 132-200).                               *)
(*                                                                         *)
(* Handlers, closures and the timer run on the UI thread, one at a time;   *)
(* the tray's menu events come from the desktop at any time and wait in a  *)
(* channel.  The slint runtime is external: a binding is followed until    *)
(* something assigns the property it is on, an element behind an `if` is   *)
(* built anew, bindings and all, whenever the condition comes true, and    *)
(* the loop that main() runs ends when the last window is hidden.          *)
(***************************************************************************)
EXTENDS Naturals, Sequences

CONSTANTS
  Logins, Wipes,   \* the presses that may be out at once
  Check,           \* the update check of the launch
  MaxMenu,         \* bound: tray events that wait
  Parts,           \* the tray's icon and its tooltip
  Refused          \* bound: the parts that the platform may refuse to set

ASSUME WindowAssumption ==
  /\ Logins \cap Wipes = {} /\ Check \notin Logins \cup Wipes
  /\ MaxMenu \in Nat \ {0}
  /\ Refused \subseteq Parts

VARIABLES
  shown, about,        \* the main window and the About screen are up
  unshown,             \* history: a show() of the hidden window failed
  running,             \* ui.run() has not returned
  camouflage_active,   \* the root property
  decoy,               \* the tray's icon and tooltip: the decoy's, its own, or
                       \* left as they were by a setting that failed
  switch,              \* the ToggleSwitch: does it follow the root property,
                       \* and what it shows when it does not
  menu,                \* the tray's events the timer has not taken
  set_by               \* history: where the disguise was last set

VARIABLES
  show_team_login, is_team_member,
  member_token,        \* the root property
  token_input,         \* what stands in the field
  autostart_enabled,   \* the root property
  entry,               \* shadowmesh.desktop: "absent", "whole" or "cut"
  status, out          \* the card, and the work that will write it

tray == <<decoy, menu>>
disguise == <<camouflage_active, switch, set_by>>
screens == <<shown, unshown, about, running>>
session == <<show_team_login, is_team_member, member_token, token_input>>
autostart == <<autostart_enabled, entry>>
card == <<status, out>>
vars == <<tray, disguise, screens, session, autostart, card>>

Following == [follows |-> TRUE, active |-> FALSE]
SwitchShows == IF switch.follows THEN camouflage_active ELSE switch.active

\* The sheet of the login takes the place of everything else in the window.
MainView == shown /\ ~show_team_login

\* A launch: a member if the device is activated, the entry as it was left.
Init ==
  /\ shown = TRUE /\ unshown = FALSE /\ about = FALSE /\ running = TRUE
  /\ camouflage_active = FALSE
  /\ decoy = [part \in Parts |-> "own"]
  /\ switch = Following /\ set_by = "window" /\ menu = <<>>
  /\ show_team_login = FALSE /\ is_team_member \in BOOLEAN
  /\ member_token = "" /\ token_input = ""
  /\ entry \in {"absent", "whole", "cut"}
  /\ autostart_enabled = (entry # "absent")
  /\ status = "IDLE"
  /\ out \in {{}, {Check}}

-----------------------------------------------------------------------------
\* The user picks an entry of the tray's menu.
PickTrayItem ==
  /\ running
  /\ Len(menu) < MaxMenu
  /\ \E item \in {"show", "camouflage", "quit"} : menu' = Append(menu, item)
  /\ UNCHANGED <<decoy, disguise, screens, session, autostart, card>>

LookOf(enabled) == IF enabled THEN "decoy" ELSE "own"

\* The tray's icon, drawn in-process when the picture in the binary is none,
\* and its tooltip: either call may fail, and neither error is looked at.
set_decoy_mode(enabled) ==
  \E left \in SUBSET Refused :
     decoy' = [part \in Parts |-> IF part \in left THEN "left" ELSE LookOf(enabled)]

\* ui.show(): an error of it is not looked at either.
show ==
  \/ shown' = TRUE /\ unshown' = FALSE
  \/ shown' = shown /\ unshown' = ~shown

\* A Show that leaves the tray in disguise (variant of ShowWindow).
ShowWindowOnly ==
  /\ Head(menu) = "show"
  /\ show
  /\ camouflage_active' = FALSE
  /\ set_by' = "tray"
  /\ UNCHANGED <<decoy, about, running, switch>>

\* A Show that leaves the window in disguise (variant of ShowWindow).
ShowWindowInDisguise ==
  /\ Head(menu) = "show"
  /\ show
  /\ UNCHANGED <<camouflage_active, decoy, set_by, about, running, switch>>

ShowWindow ==
  /\ Head(menu) = "show"
  /\ show
  /\ camouflage_active' = FALSE
  /\ set_decoy_mode(FALSE)
  /\ set_by' = "tray"
  /\ UNCHANGED <<about, running, switch>>

\* The tray always asks for the disguise, never for its end.
CamouflageFromTray ==
  /\ Head(menu) = "camouflage"
  /\ camouflage_active' = TRUE
  /\ set_decoy_mode(TRUE)
  /\ set_by' = "tray"
  /\ UNCHANGED <<screens, switch>>

\* The id of the Quit entry is not kept: its event is one nobody handles.
UnhandledItem ==
  /\ Head(menu) = "quit"
  /\ UNCHANGED <<decoy, disguise, screens>>

\* The timer takes one event a turn.
TrayTimer ==
  /\ running
  /\ menu # <<>>
  /\ menu' = Tail(menu)
  /\ ShowWindow \/ CamouflageFromTray \/ UnhandledItem
  /\ UNCHANGED <<session, autostart, card>>

\* A switch whose word reaches the tray only (variant of ClickSwitch).
ClickSwitchTrayOnly ==
  /\ MainView
  /\ switch' = [follows |-> FALSE, active |-> ~SwitchShows]
  /\ set_decoy_mode(~SwitchShows)
  /\ set_by' = "window"
  /\ UNCHANGED <<camouflage_active, menu, screens, session, autostart, card>>

\* A click sets the switch itself, which ends its following, and passes what
\* it then shows to the root property and to the tray.
ClickSwitch ==
  /\ MainView
  /\ switch' = [follows |-> FALSE, active |-> ~SwitchShows]
  /\ camouflage_active' = ~SwitchShows
  /\ set_decoy_mode(~SwitchShows)
  /\ set_by' = "window"
  /\ UNCHANGED <<menu, screens, session, autostart, card>>

\* ui.run() goes on while a window is up; with the last one hidden it returns,
\* and main() with it: no timer, closure or tray event is heard any more.
WhileUp(up) ==
  /\ running' = up
  /\ menu' = IF up THEN menu ELSE <<>>

\* The window hides, and the About screen with it unless its hide() fails,
\* which nobody looks at.
Close ==
  /\ shown
  /\ shown' = FALSE /\ about' \in {about, FALSE}
  /\ unshown' = FALSE
  /\ WhileUp(about')
  /\ UNCHANGED <<decoy, disguise, session, autostart, card>>

ShowAbout ==
  /\ shown
  /\ about' \in {about, TRUE}
  /\ UNCHANGED <<shown, unshown, running, tray, disguise, session, autostart, card>>

CloseAbout ==
  /\ about
  /\ about' \in {about, FALSE}
  /\ WhileUp(shown \/ about')
  /\ UNCHANGED <<shown, unshown, decoy, disguise, session, autostart, card>>

-----------------------------------------------------------------------------
OpenLogin ==
  /\ MainView
  /\ ~is_team_member /\ ~camouflage_active
  /\ show_team_login' = TRUE
  /\ token_input' = member_token
  /\ UNCHANGED <<is_team_member, member_token>>
  /\ UNCHANGED <<tray, disguise, screens, autostart, card>>

\* Typing assigns the field's text and nothing else: it is bound one way.
TypeToken ==
  /\ shown /\ show_team_login
  /\ token_input' = "typed"
  /\ UNCHANGED <<show_team_login, is_team_member, member_token>>
  /\ UNCHANGED <<tray, disguise, screens, autostart, card>>

CancelLogin ==
  /\ shown /\ show_team_login
  /\ show_team_login' = FALSE
  /\ token_input' = ""
  /\ switch' = Following
  /\ UNCHANGED <<is_team_member, member_token>>
  /\ UNCHANGED <<camouflage_active, set_by, tray, screens, autostart, card>>

\* AUTHENTICATE sends the root property to the core.
Authenticate(l) ==
  /\ shown /\ show_team_login
  /\ l \notin out
  /\ out' = out \cup {l}
  /\ status' = "AUTHENTICATING..."
  /\ UNCHANGED <<tray, disguise, screens, session, autostart>>

\* A success that leaves the sheet open (variant of LoginAccepted).
LoginAcceptedOnSheet(l) ==
  /\ running /\ l \in out
  /\ out' = out \ {l}
  /\ is_team_member' = TRUE
  /\ member_token' = ""
  /\ status' = "AUTHENTICATED"
  /\ UNCHANGED <<show_team_login, token_input, switch>>
  /\ UNCHANGED <<camouflage_active, set_by, tray, screens, autostart>>

\* The closure of a login the core accepted.
LoginAccepted(l) ==
  /\ running /\ l \in out
  /\ out' = out \ {l}
  /\ is_team_member' = TRUE
  /\ show_team_login' = FALSE
  /\ switch' = IF show_team_login THEN Following ELSE switch
  /\ member_token' = "" /\ token_input' = ""
  /\ status' = "AUTHENTICATED"
  /\ UNCHANGED <<camouflage_active, set_by, tray, screens, autostart>>

LoginRefused(l) ==
  /\ running /\ l \in out
  /\ out' = out \ {l}
  /\ status' = "AUTHENTICATION FAILED"
  /\ UNCHANGED <<tray, disguise, screens, session, autostart>>

PressWipe(w) ==
  /\ MainView
  /\ w \notin out
  /\ out' = out \cup {w}
  /\ status' = "WIPING..."
  /\ UNCHANGED <<tray, disguise, screens, session, autostart>>

\* A report without failures that clears the surface only (variant of
\* WipeReported).
WipeReportedSilently(w) ==
  /\ running /\ w \in out
  /\ out' = out \ {w}
  /\ status' \in {status, "WIPED (FAILED)"}
  /\ is_team_member' = FALSE
  /\ UNCHANGED <<show_team_login, member_token, token_input>>
  /\ UNCHANGED <<tray, disguise, screens, autostart>>

\* The closure of a wipe clears the member surface, and leaves a login sheet
\* and the autostart entry where they are.
WipeReported(w) ==
  /\ running /\ w \in out
  /\ out' = out \ {w}
  /\ status' \in {"WIPED", "WIPED (FAILED)"}
  /\ is_team_member' = FALSE
  /\ UNCHANGED <<show_team_login, member_token, token_input>>
  /\ UNCHANGED <<tray, disguise, screens, autostart>>

\* A notice, or nothing when the check failed or found nothing newer.
CheckEnds ==
  /\ running /\ Check \in out
  /\ out' = out \ {Check}
  /\ status' \in {"UPDATE AVAILABLE", status}
  /\ UNCHANGED <<tray, disguise, screens, session, autostart>>

-----------------------------------------------------------------------------
\* Autostart::set_enabled: what the entry may be after it, by its answer.  An
\* enabling may fail before the write or in it; a removal that fails is not
\* an error, and what fails before it (the registry key on Windows) is.
EntryAfter(enabled) ==
  [ok   |-> IF enabled THEN {"whole"} ELSE {"absent", entry},
   fail |-> IF enabled THEN {entry, "cut"} ELSE {entry}]

IsEnabled(file) == file # "absent"

\* A switch thrown before the work is done (variant of ClickAutostart).
ClickAutostartEarly ==
  /\ MainView
  /\ LET enabled == ~autostart_enabled
     IN  \/ /\ entry' \in EntryAfter(enabled).ok
            /\ autostart_enabled' = enabled
            /\ status' = IF enabled THEN "AUTOSTART ON" ELSE "AUTOSTART OFF"
         \/ /\ entry' \in EntryAfter(enabled).fail
            /\ status' = "AUTOSTART FAILED"
            /\ autostart_enabled' = enabled
  /\ UNCHANGED <<out, tray, disguise, screens, session>>

\* The handler: after a failure the entry is looked up, which may fail too.
ClickAutostart ==
  /\ MainView
  /\ LET enabled == ~autostart_enabled
     IN  \/ /\ entry' \in EntryAfter(enabled).ok
            /\ autostart_enabled' = enabled
            /\ status' = IF enabled THEN "AUTOSTART ON" ELSE "AUTOSTART OFF"
         \/ /\ entry' \in EntryAfter(enabled).fail
            /\ status' = "AUTOSTART FAILED"
            /\ autostart_enabled' \in {IsEnabled(entry'), autostart_enabled}
  /\ UNCHANGED <<out, tray, disguise, screens, session>>

Closure ==
  \/ \E l \in Logins : LoginAccepted(l) \/ LoginRefused(l)
  \/ \E w \in Wipes : WipeReported(w)
  \/ CheckEnds

Next ==
  \/ PickTrayItem \/ TrayTimer
  \/ ClickSwitch \/ Close \/ ShowAbout \/ CloseAbout
  \/ OpenLogin \/ TypeToken \/ CancelLogin
  \/ \E l \in Logins : Authenticate(l)
  \/ \E w \in Wipes : PressWipe(w)
  \/ ClickAutostart
  \/ Closure

\* The timer is repeated, and held for as long as the loop runs.  That tasks
\* post their closures is so as well, and needed by nothing here.
Fairness == WF_vars(TrayTimer)

Spec == Init /\ [][Next]_vars /\ Fairness

-----------------------------------------------------------------------------
TypeOK ==
  /\ shown \in BOOLEAN /\ unshown \in BOOLEAN /\ about \in BOOLEAN
  /\ running \in BOOLEAN
  /\ camouflage_active \in BOOLEAN
  /\ decoy \in [Parts -> {"own", "decoy", "left"}]
  /\ switch \in [follows : BOOLEAN, active : BOOLEAN]
  /\ menu \in Seq({"show", "camouflage", "quit"}) /\ Len(menu) <= MaxMenu
  /\ set_by \in {"window", "tray"}
  /\ show_team_login \in BOOLEAN /\ is_team_member \in BOOLEAN
  /\ member_token \in {"", "typed"} /\ token_input \in {"", "typed"}
  /\ autostart_enabled \in BOOLEAN /\ entry \in {"absent", "whole", "cut"}
  /\ status \in {"IDLE", "AUTHENTICATING...", "AUTHENTICATED", "AUTHENTICATION FAILED",
                 "WIPING...", "WIPED", "WIPED (FAILED)", "UPDATE AVAILABLE",
                 "AUTOSTART ON", "AUTOSTART OFF", "AUTOSTART FAILED"}
  /\ out \subseteq Logins \cup Wipes \cup {Check}

\* SAFETY.  Window and tray are in disguise together: three handlers set them,
\* and no order of clicks and tray events leaves the icon or the tooltip behind
\* unless the platform refused it the last time it was set.
DisguiseIsWhole ==
  \A part \in Parts : decoy[part] \in {LookOf(camouflage_active), "left"}

\* SAFETY.  The switch shows the disguise as it is unless the tray has set it
\* since: it is then wrong, for its first click has ended its following
\* (main.slint 133-136, 1168-1175).
SwitchIsWrongOnlyAfterTheTray == SwitchShows # camouflage_active => set_by = "tray"

\* SAFETY.  A member is never asked for a token: no answer of a login, late,
\* second or after a wipe, makes a member behind a sheet that stays open.
SheetIsForStrangers == show_team_login => ~is_team_member

\* SAFETY.  "AUTOSTART: ON" is never shown without an entry, whatever failed
\* ("Reflect the unchanged actual state", main.rs 945).
OnHasAnEntry == autostart_enabled => entry # "absent"

\* The four are inductive together, each for its own reasons.
WindowInv ==
  /\ TypeOK
  /\ DisguiseIsWhole /\ SwitchIsWrongOnlyAfterTheTray
  /\ SheetIsForStrangers /\ OnHasAnEntry

\* LIVENESS.  While the loop runs, a Show picked in the tray ends in a window
\* out of disguise, and up unless show() failed, whatever else has been picked.
ShowIsHeard ==
  (\E k \in 1..Len(menu) : menu[k] = "show")
    ~> (~camouflage_active /\ (shown \/ unshown)) \/ ~running

\* SAFETY.  "The main window hides rather than exits (the app lives in the
\* tray)" (main.rs 186-187): closing it leaves a program that runs.
HidesRatherThanExits == ~shown => running

\* These handlers write the card as every handler does.
Work == Logins \cup Wipes \cup {Check}
Kind == [w \in Work |-> CASE w \in Logins -> "login"
                         [] w \in Wipes  -> "wipe"
                         [] w = Check    -> "update"]
Card == INSTANCE StatusCard

\* REFINEMENT.  Every label of work is overwritten by that work's own end, or
\* sooner.
ImplementsCard == Card!CardSafety

\* SAFETY.  The field's text is the property that AUTHENTICATE sends ("two-way
\* binding target for the masked member-token TextInput", main.slint 858).
FieldIsTheToken == show_team_login => token_input = member_token
=============================================================================
