---------------------------- MODULE WindowProofs ----------------------------
(***************************************************************************)
(* Proofs about module Window, for any number of logins and wipes out at   *)
(* once and any number of tray events that wait.                           *)
(***************************************************************************)
EXTENDS Window, SequenceTheorems, TLAPS

\* What the switch shows is itself when it has been clicked, and the disguise
\* until then.
LEMMA SwitchFacts ==
  /\ Following \in [follows : BOOLEAN, active : BOOLEAN]
  /\ switch = Following => SwitchShows = camouflage_active
<1>1. Following \in [follows : BOOLEAN, active : BOOLEAN]
  BY Zenon DEF Following
<1>2. ASSUME switch = Following
      PROVE  SwitchShows = camouflage_active
  BY Zenon, <1>2 DEF Following, SwitchShows
<1>3. QED
  BY <1>1, <1>2

\* The screens and the disguise keep to their values.
ScreensOK ==
  shown \in BOOLEAN /\ unshown \in BOOLEAN /\ about \in BOOLEAN /\ running \in BOOLEAN
DisguiseOK ==
  /\ camouflage_active \in BOOLEAN
  /\ decoy \in [Parts -> {"own", "decoy", "left"}]
  /\ switch \in [follows : BOOLEAN, active : BOOLEAN]
  /\ set_by \in {"window", "tray"}

\* A setting of the tray leaves each part looking as it was told to, or left.
LEMMA LooksAreSet ==
  ASSUME NEW enabled \in BOOLEAN, set_decoy_mode(enabled)
  PROVE  /\ decoy' \in [Parts -> {"own", "decoy", "left"}]
         /\ \A part \in Parts : decoy'[part] \in {LookOf(enabled), "left"}
<1>1. PICK left \in SUBSET Refused :
        decoy' = [part \in Parts |-> IF part \in left THEN "left" ELSE LookOf(enabled)]
  BY Zenon DEF set_decoy_mode
<1>2. LookOf(enabled) \in {"own", "decoy"}
  BY Zenon DEF LookOf
<1>3. QED
  BY Zenon, <1>1, <1>2

LEMMA InitWindow == Init => WindowInv
<1> SUFFICES ASSUME Init
             PROVE  WindowInv
  OBVIOUS
<1>1. menu \in Seq({"show", "camouflage", "quit"}) /\ Len(menu) <= MaxMenu
  <2>1. menu = <<>>
    BY Zenon DEF Init
  <2>2. QED
    BY <2>1, EmptySeq, WindowAssumption
<1>2. ScreensOK /\ DisguiseOK
  BY Zenon, SwitchFacts DEF Init, ScreensOK, DisguiseOK, LookOf
<1>3. /\ show_team_login \in BOOLEAN /\ is_team_member \in BOOLEAN
      /\ member_token \in {"", "typed"} /\ token_input \in {"", "typed"}
      /\ autostart_enabled \in BOOLEAN /\ entry \in {"absent", "whole", "cut"}
  BY Zenon DEF Init
<1>4. status = "IDLE" /\ out \subseteq Logins \cup Wipes \cup {Check}
  BY Zenon DEF Init
<1>5. TypeOK
  BY <1>1, <1>2, <1>3, <1>4 DEF TypeOK, ScreensOK, DisguiseOK
<1>6. DisguiseIsWhole /\ SheetIsForStrangers /\ OnHasAnEntry
  BY Zenon DEF Init, LookOf, DisguiseIsWhole, SheetIsForStrangers, OnHasAnEntry
<1>7. SwitchIsWrongOnlyAfterTheTray
  <2>1. SwitchShows = camouflage_active
    BY Zenon, SwitchFacts DEF Init
  <2>2. QED
    BY Zenon, <2>1 DEF SwitchIsWrongOnlyAfterTheTray
<1>8. QED
  BY <1>5, <1>6, <1>7 DEF WindowInv

\* Who moves what: the tray's channel; the disguise, the tray's own and the
\* switch; the session; autostart; the card.
LEMMA WhoMovesWhat ==
  ASSUME Next
  PROVE  /\ PickTrayItem \/ TrayTimer \/ menu' \in {menu, <<>>}
         /\ Close \/ ShowAbout \/ CloseAbout \/ TrayTimer \/ UNCHANGED screens
         /\ \/ TrayTimer \/ ClickSwitch \/ CancelLogin \/ \E l \in Logins : LoginAccepted(l)
            \/ UNCHANGED <<decoy, disguise>>
         /\ \/ OpenLogin \/ TypeToken \/ CancelLogin \/ \E l \in Logins : LoginAccepted(l)
            \/ \E w \in Wipes : WipeReported(w)
            \/ UNCHANGED session
         /\ ClickAutostart \/ UNCHANGED autostart
         /\ \/ \E l \in Logins : Authenticate(l) \/ LoginAccepted(l) \/ LoginRefused(l)
            \/ \E w \in Wipes : PressWipe(w) \/ WipeReported(w)
            \/ CheckEnds \/ ClickAutostart \/ UNCHANGED card
<1>1. CASE PickTrayItem
  BY Zenon, <1>1 DEF PickTrayItem
<1>2. CASE TrayTimer
  BY Zenon, <1>2 DEF TrayTimer
<1>3. CASE ClickSwitch
  BY Zenon, <1>3 DEF ClickSwitch
<1>4. CASE Close \/ ShowAbout \/ CloseAbout
  BY Zenon, <1>4 DEF Close, ShowAbout, CloseAbout, WhileUp, tray
<1>5. CASE OpenLogin \/ TypeToken
  BY Zenon, <1>5 DEF OpenLogin, TypeToken, tray
<1>6. CASE CancelLogin
  BY Zenon, <1>6 DEF CancelLogin, tray
<1>7. ASSUME NEW l \in Logins, Authenticate(l) \/ LoginRefused(l)
      PROVE  /\ menu' = menu /\ UNCHANGED screens
             /\ UNCHANGED <<decoy, disguise>> /\ UNCHANGED <<session, autostart>>
  BY Zenon, <1>7 DEF Authenticate, LoginRefused, tray
<1>8. ASSUME NEW l \in Logins, LoginAccepted(l)
      PROVE  menu' = menu /\ UNCHANGED screens /\ UNCHANGED autostart
  BY Zenon, <1>8 DEF LoginAccepted, tray
<1>9. ASSUME NEW w \in Wipes, PressWipe(w)
      PROVE  /\ menu' = menu /\ UNCHANGED screens
             /\ UNCHANGED <<decoy, disguise>> /\ UNCHANGED <<session, autostart>>
  BY Zenon, <1>9 DEF PressWipe, tray
<1>10. ASSUME NEW w \in Wipes, WipeReported(w)
       PROVE  /\ menu' = menu /\ UNCHANGED screens
              /\ UNCHANGED <<decoy, disguise>> /\ UNCHANGED autostart
  BY Zenon, <1>10 DEF WipeReported, tray
<1>11. CASE CheckEnds
  BY Zenon, <1>11 DEF CheckEnds, tray
<1>12. CASE ClickAutostart
  BY Zenon, <1>12 DEF ClickAutostart, tray
<1>13. QED
  BY Zenon, <1>1, <1>2, <1>3, <1>4, <1>5, <1>6, <1>7, <1>8, <1>9, <1>10, <1>11, <1>12
     DEF Next, Closure

LEMMA MenuKeeps ==
  ASSUME TypeOK, Next
  PROVE  menu' \in Seq({"show", "camouflage", "quit"}) /\ Len(menu') <= MaxMenu
<1> DEFINE Items == {"show", "camouflage", "quit"}
<1>1. menu \in Seq(Items) /\ Len(menu) \in Nat /\ Len(menu) <= MaxMenu /\ MaxMenu \in Nat
  BY WindowAssumption, LenProperties DEF TypeOK
<1>2. CASE PickTrayItem
  <2>1. PICK item \in Items : menu' = Append(menu, item)
    BY Zenon, <1>2 DEF PickTrayItem
  <2>2. Len(menu) < MaxMenu
    BY Zenon, <1>2 DEF PickTrayItem
  <2> HIDE DEF Items
  <2>3. menu' \in Seq(Items) /\ Len(menu') = Len(menu) + 1
    BY <1>1, <2>1, AppendProperties
  <2>4. QED
    BY <1>1, <2>2, <2>3 DEF Items
<1>3. CASE TrayTimer
  <2>1. menu # <<>> /\ menu' = Tail(menu)
    BY Zenon, <1>3 DEF TrayTimer
  <2> HIDE DEF Items
  <2>2. menu' \in Seq(Items) /\ Len(menu') = Len(menu) - 1
    BY <1>1, <2>1, HeadTailProperties
  <2>3. QED
    BY <1>1, <2>2 DEF Items
<1>4. CASE menu' = menu
  BY <1>1, <1>4
<1>5. CASE menu' = <<>>
  <2>1. menu' \in Seq(Items) /\ Len(menu') = 0
    BY <1>5, EmptySeq
  <2>2. QED
    BY <1>1, <2>1
<1>6. QED
  BY <1>2, <1>3, <1>4, <1>5, WhoMovesWhat

LEMMA ScreensKeep ==
  ASSUME TypeOK, Next
  PROVE  ScreensOK'
<1>0. ScreensOK
  BY Zenon DEF TypeOK, ScreensOK
<1>1. CASE Close \/ ShowAbout \/ CloseAbout
  BY Zenon, <1>0, <1>1 DEF Close, ShowAbout, CloseAbout, WhileUp, ScreensOK
<1>2. CASE TrayTimer
  <2>1. UNCHANGED screens \/ (show /\ UNCHANGED <<about, running>>)
    BY Zenon, <1>2 DEF TrayTimer, ShowWindow, CamouflageFromTray, UnhandledItem
  <2>2. QED
    BY Zenon, <1>0, <2>1 DEF show, screens, ScreensOK
<1>3. CASE UNCHANGED screens
  BY Zenon, <1>0, <1>3 DEF screens, ScreensOK
<1>4. QED
  BY Zenon, <1>1, <1>2, <1>3, WhoMovesWhat

LEMMA DisguiseKeeps ==
  ASSUME WindowInv, Next
  PROVE  DisguiseOK' /\ DisguiseIsWhole' /\ SwitchIsWrongOnlyAfterTheTray'
<1>0. DisguiseOK /\ DisguiseIsWhole /\ SwitchIsWrongOnlyAfterTheTray
  BY Zenon DEF WindowInv, TypeOK, DisguiseOK
<1>1. CASE TrayTimer
  <2>1. CASE UnhandledItem
    BY Zenon, <1>0, <2>1 DEF UnhandledItem, disguise, DisguiseOK, SwitchShows,
         DisguiseIsWhole, SwitchIsWrongOnlyAfterTheTray
  <2>2. ASSUME NEW enabled \in BOOLEAN, set_decoy_mode(enabled),
               camouflage_active' = enabled, set_by' = "tray", switch' = switch
        PROVE  DisguiseOK' /\ DisguiseIsWhole' /\ SwitchIsWrongOnlyAfterTheTray'
    <3>1. /\ decoy' \in [Parts -> {"own", "decoy", "left"}]
          /\ \A part \in Parts : decoy'[part] \in {LookOf(enabled), "left"}
      BY <2>2, LooksAreSet
    <3>2. QED
      BY Zenon, <1>0, <2>2, <3>1 DEF DisguiseOK, DisguiseIsWhole, LookOf,
           SwitchIsWrongOnlyAfterTheTray
  <2>3. CASE ShowWindow
    BY Zenon, <2>2, <2>3 DEF ShowWindow
  <2>4. CASE CamouflageFromTray
    BY Zenon, <2>2, <2>4 DEF CamouflageFromTray
  <2>5. QED
    BY Zenon, <1>1, <2>1, <2>3, <2>4 DEF TrayTimer
<1>2. CASE ClickSwitch
  <2> DEFINE enabled == ~SwitchShows
  <2>1. /\ switch' = [follows |-> FALSE, active |-> enabled]
        /\ camouflage_active' = enabled /\ set_decoy_mode(enabled) /\ set_by' = "window"
    BY Zenon, <1>2 DEF ClickSwitch
  <2>2. enabled \in BOOLEAN
    BY Zenon
  <2> HIDE DEF enabled
  <2>3. /\ switch' \in [follows : BOOLEAN, active : BOOLEAN]
        /\ SwitchShows' = camouflage_active'
    BY Zenon, <2>1, <2>2 DEF SwitchShows
  <2>4. /\ decoy' \in [Parts -> {"own", "decoy", "left"}]
        /\ \A part \in Parts : decoy'[part] \in {LookOf(enabled), "left"}
    BY <2>1, <2>2, LooksAreSet
  <2>5. QED
    BY Zenon, <2>1, <2>2, <2>3, <2>4 DEF DisguiseOK, DisguiseIsWhole, LookOf,
         SwitchIsWrongOnlyAfterTheTray
<1>3. CASE CancelLogin \/ \E l \in Logins : LoginAccepted(l)
  <2>1. /\ switch' = switch \/ switch' = Following
        /\ UNCHANGED <<camouflage_active, set_by, decoy>>
    BY Zenon, <1>3 DEF CancelLogin, LoginAccepted, tray
  <2>2. ASSUME switch' = Following
        PROVE  SwitchShows' = camouflage_active'
    BY Zenon, <2>2 DEF SwitchShows, Following
  <2>3. ASSUME switch' = switch
        PROVE  SwitchShows' = SwitchShows
    BY Zenon, <2>1, <2>3 DEF SwitchShows
  <2>4. SwitchIsWrongOnlyAfterTheTray'
    BY Zenon, <1>0, <2>1, <2>2, <2>3 DEF SwitchIsWrongOnlyAfterTheTray
  <2>5. QED
    BY Zenon, <1>0, <2>1, <2>4, SwitchFacts DEF DisguiseOK, DisguiseIsWhole
<1>4. CASE UNCHANGED <<decoy, disguise>>
  <2>1. UNCHANGED <<decoy, camouflage_active, switch, set_by>>
    BY Zenon, <1>4 DEF disguise
  <2>2. QED
    BY Zenon, <1>0, <2>1 DEF DisguiseOK, DisguiseIsWhole, SwitchIsWrongOnlyAfterTheTray,
         SwitchShows
<1>5. QED
  BY Zenon, <1>1, <1>2, <1>3, <1>4, WhoMovesWhat

LEMMA SessionKeeps ==
  ASSUME WindowInv, Next
  PROVE  /\ show_team_login' \in BOOLEAN /\ is_team_member' \in BOOLEAN
         /\ member_token' \in {"", "typed"} /\ token_input' \in {"", "typed"}
         /\ SheetIsForStrangers'
<1>0. /\ show_team_login \in BOOLEAN /\ is_team_member \in BOOLEAN
      /\ member_token \in {"", "typed"} /\ token_input \in {"", "typed"}
      /\ SheetIsForStrangers
  BY Zenon DEF WindowInv, TypeOK
<1>1. CASE OpenLogin
  BY Zenon, <1>0, <1>1 DEF OpenLogin, SheetIsForStrangers
<1>2. CASE TypeToken
  BY Zenon, <1>0, <1>2 DEF TypeToken, SheetIsForStrangers
<1>6. CASE CancelLogin
  BY Zenon, <1>0, <1>6 DEF CancelLogin, SheetIsForStrangers
<1>3. CASE \E l \in Logins : LoginAccepted(l)
  BY Zenon, <1>0, <1>3 DEF LoginAccepted, SheetIsForStrangers
<1>4. CASE \E w \in Wipes : WipeReported(w)
  BY Zenon, <1>0, <1>4 DEF WipeReported, SheetIsForStrangers
<1>5. CASE UNCHANGED session
  BY Zenon, <1>0, <1>5 DEF session, SheetIsForStrangers
<1>7. QED
  BY Zenon, <1>1, <1>2, <1>3, <1>4, <1>5, <1>6, WhoMovesWhat

LEMMA AutostartKeeps ==
  ASSUME WindowInv, Next
  PROVE  /\ autostart_enabled' \in BOOLEAN /\ entry' \in {"absent", "whole", "cut"}
         /\ OnHasAnEntry'
<1>0. autostart_enabled \in BOOLEAN /\ entry \in {"absent", "whole", "cut"} /\ OnHasAnEntry
  BY Zenon DEF WindowInv, TypeOK
<1>1. CASE ClickAutostart
  <2>1. CASE autostart_enabled
    <3>1. \/ entry' \in {"absent", entry} /\ autostart_enabled' = FALSE
          \/ entry' = entry /\ autostart_enabled' \in {(entry' # "absent"), autostart_enabled}
      BY Zenon, <1>1, <2>1 DEF ClickAutostart, EntryAfter, IsEnabled
    <3>2. QED
      BY Zenon, <1>0, <2>1, <3>1 DEF OnHasAnEntry
  <2>2. CASE ~autostart_enabled
    <3>1. \/ entry' = "whole" /\ autostart_enabled' = TRUE
          \/ /\ entry' \in {entry, "cut"}
             /\ autostart_enabled' \in {(entry' # "absent"), autostart_enabled}
      BY Zenon, <1>0, <1>1, <2>2 DEF ClickAutostart, EntryAfter, IsEnabled
    <3>2. QED
      BY Zenon, <1>0, <2>2, <3>1 DEF OnHasAnEntry
  <2>3. QED
    BY Zenon, <2>1, <2>2
<1>2. CASE UNCHANGED autostart
  BY Zenon, <1>0, <1>2 DEF autostart, OnHasAnEntry
<1>3. QED
  BY Zenon, <1>1, <1>2, WhoMovesWhat

Labels == {"IDLE", "AUTHENTICATING...", "AUTHENTICATED", "AUTHENTICATION FAILED",
           "WIPING...", "WIPED", "WIPED (FAILED)", "UPDATE AVAILABLE",
           "AUTOSTART ON", "AUTOSTART OFF", "AUTOSTART FAILED"}

LEMMA CardKeeps ==
  ASSUME TypeOK, Next
  PROVE  status' \in Labels /\ out' \subseteq Logins \cup Wipes \cup {Check}
<1>0. status \in Labels /\ out \subseteq Logins \cup Wipes \cup {Check}
  BY Zenon DEF TypeOK, Labels
<1>1. CASE \E l \in Logins : Authenticate(l) \/ LoginAccepted(l) \/ LoginRefused(l)
  <2>1. PICK l \in Logins : Authenticate(l) \/ LoginAccepted(l) \/ LoginRefused(l)
    BY <1>1
  <2>2. /\ status' \in {"AUTHENTICATING...", "AUTHENTICATED", "AUTHENTICATION FAILED"}
        /\ out' = out \cup {l} \/ out' = out \ {l}
    BY Zenon, <2>1 DEF Authenticate, LoginAccepted, LoginRefused
  <2>3. QED
    BY <1>0, <2>1, <2>2 DEF Labels
<1>2. CASE \E w \in Wipes : PressWipe(w) \/ WipeReported(w)
  <2>1. PICK w \in Wipes : PressWipe(w) \/ WipeReported(w)
    BY <1>2
  <2>2. /\ status' \in {"WIPING...", "WIPED", "WIPED (FAILED)"}
        /\ out' = out \cup {w} \/ out' = out \ {w}
    BY Zenon, <2>1 DEF PressWipe, WipeReported
  <2>3. QED
    BY <1>0, <2>1, <2>2 DEF Labels
<1>3. CASE CheckEnds
  <2>1. status' \in {"UPDATE AVAILABLE", status} /\ out' = out \ {Check}
    BY Zenon, <1>3 DEF CheckEnds
  <2>2. QED
    BY <1>0, <2>1 DEF Labels
<1>4. CASE ClickAutostart
  <2>1. status' \in {"AUTOSTART ON", "AUTOSTART OFF", "AUTOSTART FAILED"} /\ out' = out
    BY Zenon, <1>4 DEF ClickAutostart
  <2>2. QED
    BY <1>0, <2>1 DEF Labels
<1>5. CASE UNCHANGED card
  BY Zenon, <1>0, <1>5 DEF card
<1>6. QED
  BY Zenon, <1>1, <1>2, <1>3, <1>4, <1>5, WhoMovesWhat

LEMMA WindowStep == WindowInv /\ [Next]_vars => WindowInv'
<1> SUFFICES ASSUME WindowInv, [Next]_vars
             PROVE  WindowInv'
  OBVIOUS
<1>1. CASE Next
  <2>1. TypeOK
    BY DEF WindowInv
  <2>2. status' \in Labels /\ out' \subseteq Logins \cup Wipes \cup {Check}
    BY <1>1, <2>1, CardKeeps
  <2>3. TypeOK'
    BY Zenon, <1>1, <2>1, <2>2, MenuKeeps, ScreensKeep, DisguiseKeeps, SessionKeeps,
       AutostartKeeps DEF TypeOK, Labels, ScreensOK, DisguiseOK
  <2>4. QED
    BY Zenon, <1>1, <2>3, DisguiseKeeps, SessionKeeps, AutostartKeeps DEF WindowInv
<1>2. CASE UNCHANGED vars
  <2>1. UNCHANGED <<shown, unshown, about, running, camouflage_active, decoy, switch, menu,
                    set_by>>
    BY Zenon, <1>2 DEF vars, tray, disguise, screens
  <2>2. UNCHANGED <<show_team_login, is_team_member, member_token, token_input>>
    BY Zenon, <1>2 DEF vars, session
  <2>3. UNCHANGED <<autostart_enabled, entry, status, out>>
    BY Zenon, <1>2 DEF vars, autostart, card
  <2>4. TypeOK
    BY DEF WindowInv
  <2>5. TypeOK'
    <3>1. ScreensOK' /\ DisguiseOK'
      BY Zenon, <2>1, <2>4 DEF TypeOK, ScreensOK, DisguiseOK
    <3>2. menu' \in Seq({"show", "camouflage", "quit"}) /\ Len(menu') <= MaxMenu
      BY Zenon, <2>1, <2>4 DEF TypeOK
    <3>3. /\ show_team_login' \in BOOLEAN /\ is_team_member' \in BOOLEAN
          /\ member_token' \in {"", "typed"} /\ token_input' \in {"", "typed"}
      BY Zenon, <2>2, <2>4 DEF TypeOK
    <3>4. /\ autostart_enabled' \in BOOLEAN /\ entry' \in {"absent", "whole", "cut"}
          /\ status' \in Labels /\ out' \subseteq Logins \cup Wipes \cup {Check}
      BY Zenon, <2>3, <2>4 DEF TypeOK, Labels
    <3>5. QED
      BY Zenon, <3>1, <3>2, <3>3, <3>4 DEF TypeOK, Labels, ScreensOK, DisguiseOK
  <2>6. QED
    BY Zenon, <2>1, <2>2, <2>3, <2>5 DEF WindowInv, DisguiseIsWhole, SheetIsForStrangers,
         SwitchIsWrongOnlyAfterTheTray, OnHasAnEntry, SwitchShows
<1>3. QED
  BY <1>1, <1>2

THEOREM WindowInvariant == Spec => []WindowInv
  BY InitWindow, WindowStep, PTL DEF Spec

\* Every property and every stored file of the window keeps to its values.
THEOREM TypeCorrect == Spec => []TypeOK
<1>1. WindowInv => TypeOK
  BY DEF WindowInv
<1>2. QED
  BY <1>1, WindowInvariant, PTL

\* No order of clicks on the switch and of tray events leaves the window in
\* disguise and the tray not, or the other way round (main.rs 797-847,
\* main.slint 1168-1175): an icon or a tooltip that differs from the window is
\* one whose last setting failed without a word (tray/mod.rs 121, 123).
THEOREM DisguiseIsWholeAlways == Spec => []DisguiseIsWhole
<1>1. WindowInv => DisguiseIsWhole
  BY DEF WindowInv
<1>2. QED
  BY <1>1, WindowInvariant, PTL

\* The switch's word is wrong only after the tray has had the last one.
THEOREM SwitchIsWrongOnlyAfterTheTrayAlways == Spec => []SwitchIsWrongOnlyAfterTheTray
<1>1. WindowInv => SwitchIsWrongOnlyAfterTheTray
  BY DEF WindowInv
<1>2. QED
  BY <1>1, WindowInvariant, PTL

\* No login that is answered late, twice or after a wipe makes a member behind
\* an open sheet (main.rs 704-730, main.slint 1178-1182).
THEOREM SheetIsForStrangersAlways == Spec => []SheetIsForStrangers
<1>1. WindowInv => SheetIsForStrangers
  BY DEF WindowInv
<1>2. QED
  BY <1>1, WindowInvariant, PTL

\* Whatever step of autostart fails, the switch does not read ON without an
\* entry (main.rs 924-951, rfc011.rs 150-200).
THEOREM OnHasAnEntryAlways == Spec => []OnHasAnEntry
<1>1. WindowInv => OnHasAnEntry
  BY DEF WindowInv
<1>2. QED
  BY <1>1, WindowInvariant, PTL
-----------------------------------------------------------------------------
(* Window implements StatusCard for its own labels.                        *)

LEMMA KindsOfWork ==
  /\ \A l \in Logins : l \in Work /\ Kind[l] = "login"
  /\ \A w \in Wipes : w \in Work /\ Kind[w] = "wipe"
  /\ Check \in Work /\ Kind[Check] = "update"
BY WindowAssumption DEF Work, Kind

LEMMA EndsOfWork ==
  /\ Card!Ended["login"] = {"AUTHENTICATED", "AUTHENTICATION FAILED"}
  /\ Card!Ended["wipe"] = {"WIPED", "WIPED (FAILED)"}
  /\ Card!Ended["update"] = {"UPDATE AVAILABLE"}
BY Zenon DEF Card!Ended

LEMMA CardInitMaps == Init => Card!CardInit
<1> SUFFICES ASSUME Init
             PROVE  Card!CardInit
  OBVIOUS
<1>1. status = "IDLE" /\ out \in {{}, {Check}}
  BY Zenon DEF Init
<1>2. Check \in {v \in Work : Kind[v] = "update"}
  BY KindsOfWork
<1>3. QED
  BY Zenon, <1>1, <1>2 DEF Card!CardInit

LEMMA CardBegins ==
  ASSUME NEW w \in Work, w \notin out, out' = out \cup {w}, status' \in Card!Begun[Kind[w]]
  PROVE  Card!CardNext
BY Zenon DEF Card!CardNext, Card!Begin

LEMMA CardEnds ==
  ASSUME NEW w \in Work, w \in out, out' = out \ {w},
         status' \in Card!Ended[Kind[w]] \/ (Kind[w] = "update" /\ status' = status)
  PROVE  Card!CardNext
<1>1. status' \in Card!Ended[Kind[w]] \cup (IF Kind[w] = "update" THEN {status} ELSE {})
  BY Zenon
<1>2. QED
  BY Zenon, <1>1 DEF Card!CardNext, Card!End

LEMMA CardStepMaps == [Next]_vars => [Card!CardNext]_card
<1> SUFFICES ASSUME Next
             PROVE  Card!CardNext \/ UNCHANGED card
  BY DEF vars, card
<1>1. ASSUME NEW l \in Logins, Authenticate(l)
      PROVE  Card!CardNext
  <2>1. l \notin out /\ out' = out \cup {l} /\ status' = "AUTHENTICATING..."
    BY Zenon, <1>1 DEF Authenticate
  <2>2. status' \in Card!Begun[Kind[l]]
    BY <2>1, KindsOfWork DEF Card!Begun
  <2>3. QED
    BY <2>1, <2>2, CardBegins, KindsOfWork
<1>2. ASSUME NEW l \in Logins, LoginAccepted(l) \/ LoginRefused(l)
      PROVE  Card!CardNext
  <2>1. l \in out /\ out' = out \ {l} /\ status' \in {"AUTHENTICATED", "AUTHENTICATION FAILED"}
    BY Zenon, <1>2 DEF LoginAccepted, LoginRefused
  <2>2. status' \in Card!Ended[Kind[l]]
    BY Zenon, <2>1, KindsOfWork, EndsOfWork
  <2>3. QED
    BY <2>1, <2>2, CardEnds, KindsOfWork
<1>3. ASSUME NEW w \in Wipes, PressWipe(w)
      PROVE  Card!CardNext
  <2>1. w \notin out /\ out' = out \cup {w} /\ status' = "WIPING..."
    BY Zenon, <1>3 DEF PressWipe
  <2>2. status' \in Card!Begun[Kind[w]]
    BY <2>1, KindsOfWork DEF Card!Begun
  <2>3. QED
    BY <2>1, <2>2, CardBegins, KindsOfWork
<1>4. ASSUME NEW w \in Wipes, WipeReported(w)
      PROVE  Card!CardNext
  <2>1. w \in out /\ out' = out \ {w} /\ status' \in {"WIPED", "WIPED (FAILED)"}
    BY Zenon, <1>4 DEF WipeReported
  <2>2. status' \in Card!Ended[Kind[w]]
    BY Zenon, <2>1, KindsOfWork, EndsOfWork
  <2>3. QED
    BY <2>1, <2>2, CardEnds, KindsOfWork
<1>5. CASE CheckEnds
  <2>1. Check \in out /\ out' = out \ {Check} /\ status' \in {"UPDATE AVAILABLE", status}
    BY Zenon, <1>5 DEF CheckEnds
  <2>2. status' \in Card!Ended[Kind[Check]] \/ status' = status
    BY Zenon, <2>1, KindsOfWork, EndsOfWork
  <2>3. QED
    BY <2>1, <2>2, CardEnds, KindsOfWork
<1>6. CASE ClickAutostart
  <2>1. out' = out /\ status' \in {"AUTOSTART ON", "AUTOSTART OFF", "AUTOSTART FAILED"}
    BY Zenon, <1>6 DEF ClickAutostart
  <2>2. QED
    BY Zenon, <2>1 DEF Card!CardNext, Card!Report, Card!AutostartLabels
<1>7. QED
  BY Zenon, <1>1, <1>2, <1>3, <1>4, <1>5, <1>6, WhoMovesWhat

\* For any number of logins and wipes the window's handlers write the card as
\* StatusCard promises (main.rs 685-730, 905-991).
THEOREM WindowImplementsCard == Spec => ImplementsCard
<1>1. UNCHANGED card <=> UNCHANGED Card!cardVars
  BY DEF card, Card!cardVars
<1>2. [Next]_vars => [Card!CardNext]_Card!cardVars
  BY <1>1, CardStepMaps DEF card, Card!cardVars
<1>3. QED
  BY <1>2, CardInitMaps, PTL DEF Spec, ImplementsCard, Card!CardSafety
=============================================================================
