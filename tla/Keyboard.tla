------------------------------- MODULE Keyboard -------------------------------
(***************************************************************************)
(* The keyboard as the game sees it: the window procedure, Input's key     *)
(* states and key events, and the edges that CompleteFrame clears.         *)
(*                                                                         *)
(* Windows is external: `down' are the keys held, by their virtual key     *)
(* codes, and while the window has the focus each press, repeat and        *)
(* release is a message that is handled before the frame that shows it.    *)
(* Lock keys (TOGGLED) and the mouse buttons, which are the same handler,  *)
(* are left out.                                                           *)
(***************************************************************************)
EXTENDS Naturals, FiniteSets

CONSTANTS
  VirtualKeys,   \* the keys of the keyboard
  Unlisted       \* those that iterableKeyCodes lacks: punctuation, Escape, Windows

VARIABLES
  down,      \* external: keys held on the keyboard
  focused,   \* external: whether the window has the focus
  pressed, edge,   \* keys[k].state: PRESSED, EDGE
  modifiers,       \* KeyModifiers
  event,           \* the InputEvent of the last step: its key and the handlers it invoked
  heard,           \* history: codes processed since CompleteFrame
  reflected,       \* history: keys found held on focus whose messages name another key
  doubtful         \* history: codes whose last message was dropped or is ambiguous

keyVars == <<down, focused, pressed, edge, modifiers, event, heard, reflected, doubtful>>

(* TranslateVirtualKey drops the extended bit of the scan code, so a key   *)
(* on the right of the keyboard, or on its keypad, goes by the name of the *)
(* other key with its scan code: these three stand for them.               *)
TranslateVirtualKey(k) ==
  CASE k = "CONTROL_RIGHT" -> "CONTROL_LEFT"
    [] k = "ALT_RIGHT" -> "ALT_LEFT"
    [] k = "NUM_8" -> "UP"
    [] OTHER -> k
SameCode(code) == {k \in VirtualKeys : TranslateVirtualKey(k) = code}

(* MapKeyModifier.  The state of the key CONTROL, say, is always that of   *)
(* CONTROL_LEFT or of CONTROL_RIGHT.                                       *)
Modifiers == {"ALT", "CONTROL", "SHIFT"}
KeysOf(m) == CASE m = "ALT" -> {"ALT_LEFT", "ALT_RIGHT"}
               [] m = "CONTROL" -> {"CONTROL_LEFT", "CONTROL_RIGHT"}
               [] m = "SHIFT" -> {"SHIFT_LEFT", "SHIFT_RIGHT"}
ModifiersOf(keys) == {m \in Modifiers : KeysOf(m) \cap keys # {}}      \* UpdateModifiers

NoEvent == [key |-> "none", handlers |-> {}]

Init ==
  /\ down \in SUBSET VirtualKeys /\ focused = TRUE
  /\ pressed = down \ Unlisted /\ edge = {}          \* ReflectKeyboardState
  /\ modifiers = ModifiersOf(pressed)
  /\ event = NoEvent
  /\ heard = {} /\ doubtful = {}
  /\ reflected = {k \in pressed : TranslateVirtualKey(k) # k}

(* InputEvent for a keyboard key in the given state.  An event that is     *)
(* neither a press, a release nor a repeat has state UNDEFINED, which is   *)
(* all bits, PULSE and EDGE included.                                      *)
Handlers(isPressed, isEdge, isPulse) ==
  (IF (isPressed /\ isEdge) \/ isPulse THEN {"OnKeyPressed"} ELSE {})
    \cup (IF ~isPressed /\ isEdge THEN {"OnKeyReleased"} ELSE {})

(* ProcessKeyEvent: the last test sees the key as the first has left it,   *)
(* so a press is also a PULSE.                                             *)
ProcessKeyEvent(code, isPressed) ==
  LET isChange == isPressed # (code \in pressed)
  IN /\ pressed' = IF isPressed THEN pressed \cup {code} ELSE pressed \ {code}
     /\ edge' = IF isChange THEN edge \cup {code} ELSE edge
     /\ heard' = heard \cup {code}
     /\ modifiers' = ModifiersOf(pressed')
     /\ event' = [key |-> code,
                  handlers |-> IF isPressed THEN Handlers(TRUE, code \in edge', TRUE)
                               ELSE IF isChange THEN Handlers(FALSE, TRUE, FALSE)
                               ELSE Handlers(TRUE, TRUE, TRUE)]

(* Windows: with ALT held and CONTROL not, a message is a system key       *)
(* message; F10's always is.                                               *)
IsSystemKey(k, held) ==
  \/ KeysOf("ALT") \cap held # {} /\ KeysOf("CONTROL") \cap held = {}
  \/ k = "F10"

(* WM_SYSKEYDOWN and WM_SYSKEYUP are processed for ALT and CONTROL only.   *)
(* A release says that no key of its code is held if no other one is, and  *)
(* none that only the next focus will find released.                       *)
Dispatch(k, isPressed, held) ==
  LET code == TranslateVirtualKey(k)
  IN IF IsSystemKey(k, held) /\ k \notin KeysOf("ALT") \cup KeysOf("CONTROL")
     THEN /\ doubtful' = IF down' = down THEN doubtful ELSE doubtful \cup {code}
          /\ event' = NoEvent
          /\ UNCHANGED <<pressed, edge, modifiers, heard>>
     ELSE /\ doubtful' = IF isPressed \/ SameCode(code) \cap (down' \cup reflected) = {}
                         THEN doubtful \ {code} ELSE doubtful \cup {code}
          /\ ProcessKeyEvent(code, isPressed)

(* A press, or a repeat of a key that is held.                             *)
KeyDown(k) ==
  /\ focused
  /\ down' = down \cup {k}
  /\ Dispatch(k, TRUE, down')
  /\ UNCHANGED <<focused, reflected>>

KeyUp(k) ==
  /\ focused /\ k \in down
  /\ down' = down \ {k}
  /\ Dispatch(k, FALSE, down)
  /\ UNCHANGED <<focused, reflected>>

(* ReflectKeyboardState: the keys of iterableKeyCodes, by their own codes. *)
ReflectedPresses == pressed \cup down                                \* mutant
Reflected == (pressed \cap Unlisted) \cup (down \ Unlisted)
ReflectKeyboardState ==
  /\ pressed' = Reflected
  /\ modifiers' = ModifiersOf(pressed')
  /\ reflected' = {k \in down \ Unlisted : TranslateVirtualKey(k) # k}
  /\ doubtful' = {}
  /\ event' = NoEvent
  /\ UNCHANGED <<down, edge, heard>>

(* WM_ACTIVATE, which a window gets on losing the focus too, then          *)
(* WM_KILLFOCUS, for which ProcessBlurredEvent does nothing.               *)
KillFocus ==
  /\ focused
  /\ focused' = FALSE
  /\ ReflectKeyboardState

(* What the user does in another window sends this one no message.         *)
Elsewhere(k) ==
  /\ ~focused
  /\ down' = IF k \in down THEN down \ {k} ELSE down \cup {k}
  /\ event' = NoEvent
  /\ UNCHANGED <<focused, pressed, edge, modifiers, heard, reflected, doubtful>>

(* WM_SETFOCUS.                                                            *)
SetFocus ==
  /\ ~focused
  /\ focused' = TRUE
  /\ ReflectKeyboardState

(* The end of App::Run's loop, after the frame has read the keys.          *)
CompleteFrame ==
  /\ edge' = edge \cap Unlisted
  /\ heard' = {} /\ event' = NoEvent
  /\ UNCHANGED <<down, focused, pressed, modifiers, reflected, doubtful>>

Next ==
  \/ \E k \in VirtualKeys : KeyDown(k) \/ KeyUp(k) \/ Elsewhere(k)
  \/ KillFocus \/ SetFocus \/ CompleteFrame

Spec == Init /\ [][Next]_keyVars

-----------------------------------------------------------------------------
(* While the window has the focus, a key of some code counts as pressed    *)
(* exactly while one is held, and so do the modifiers, whatever was        *)
(* pressed or released in other windows, except where the last message of  *)
(* the code was dropped or was about one of several of its keys; and a     *)
(* listed key shows an edge only in the frame that heard of it.            *)
Listed(code) == TranslateVirtualKey(code) = code /\ SameCode(code) \cap Unlisted = {}
KeysFollowTheKeyboard ==
  /\ focused =>
       /\ \A code \in VirtualKeys \ doubtful :
            Listed(code) => (SameCode(code) \cap pressed = {} <=> SameCode(code) \cap down = {})
       /\ \A m \in Modifiers :
            KeysOf(m) \cap doubtful = {} => (m \in modifiers <=> KeysOf(m) \cap down # {})
  /\ edge \ Unlisted \subseteq heard

(* Input.h says of OnKeyPressed: rising edges or pulses for keyboard keys. *)
(* So its handlers hear of keys that are held.                             *)
PressesAreReal == "OnKeyPressed" \in event.handlers => SameCode(event.key) \cap down # {}
=============================================================================
