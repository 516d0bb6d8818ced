---------------------------- MODULE Preferences ----------------------------
(***************************************************************************)
(* The two display preferences of one browser tab: the theme               *)
(* (hooks/use-theme.tsx, lib/theme-preference.tsx) and reduced motion      *)
(* (hooks/use-reduced-motion.tsx, lib/motion-preference.ts), with the      *)
(* switches that change them. Both are read once, when the providers       *)
(* mount; another tab may write the same cookie and storage at any time.   *)
(*                                                                         *)
(* A theme change made while motion is allowed is committed later, from a  *)
(* view transition. Bound: MaxQueue transitions waiting.                   *)
(***************************************************************************)
EXTENDS Naturals, Sequences

CONSTANTS MaxQueue, None

PreferencesAssumption == MaxQueue \in Nat

Themes == {"light", "dark"}
DEFAULT_THEME == "dark"
Choices == {"system", "reduced", "full"}

VARIABLES
  mounted,     \* the providers' layout effects have run
  theme,       \* React's theme
  html,        \* the theme of the <html> class
  queue,       \* commits waiting for their view transition
  cookie,      \* the stored theme, None when absent
  preference,  \* React's motion preference
  stored,      \* the stored motion preference, None when absent
  os,          \* the OS asks for reduced motion
  watched,     \* systemPrefersReduced
  attr,        \* data-motion on <html>, None before the first effect
  browser      \* whether it stores anything and has view transitions

page == <<mounted, theme, html, queue, preference, watched, attr>>
storage == <<cookie, stored>>
vars == <<page, storage, os, browser>>

TypeOK ==
  /\ {theme, html} \subseteq Themes /\ cookie \in {"light", None}
  /\ queue \in UNION {[1..n -> Themes] : n \in 0..MaxQueue}
  /\ preference \in Choices /\ stored \in (Choices \ {"system"}) \cup {None}
  /\ {mounted, os, watched} \subseteq BOOLEAN /\ attr \in {"reduced", "full", None}
  /\ browser \in [stores : BOOLEAN, transitions : BOOLEAN]
  /\ ~browser.stores => cookie = None /\ stored = None

----------------------------------------------------------------------------
\* What is stored, and reading it back: a default is stored as nothing at all,
\* and where storage is blocked nothing ever is.

Stored(value, default) == IF browser.stores /\ value # default THEN value ELSE None
Read(value, default) == IF value = None THEN default ELSE value

readStoredTheme == Read(cookie, DEFAULT_THEME)
readStoredMotionPreference == Read(stored, "system")

resolveReducedMotion(pref, system) == pref = "reduced" \/ (pref = "system" /\ system)
reduced == resolveReducedMotion(preference, watched)

Init ==
  /\ mounted = FALSE /\ theme = DEFAULT_THEME /\ queue = <<>>
  /\ browser \in [stores : BOOLEAN, transitions : BOOLEAN]
  /\ cookie \in {None} \cup IF browser.stores THEN {"light"} ELSE {}
  /\ stored \in {None} \cup IF browser.stores THEN {"reduced", "full"} ELSE {}
  /\ html = readStoredTheme     \* THEME_INIT_SCRIPT
  /\ preference = "system" /\ os \in BOOLEAN /\ watched = FALSE /\ attr = None

\* The page is loaded again: the script in <head> sets the class before React
\* renders with its defaults, and waiting transitions are gone.
Reload ==
  /\ mounted' = FALSE /\ theme' = DEFAULT_THEME /\ html' = readStoredTheme
  /\ queue' = <<>>
  /\ preference' = "system" /\ watched' = FALSE /\ attr' = None
  /\ UNCHANGED <<storage, os, browser>>

\* The layout effects of both providers, before the first paint.
Mount ==
  /\ ~mounted /\ mounted' = TRUE
  /\ theme' = readStoredTheme /\ html' = readStoredTheme
  /\ preference' = readStoredMotionPreference /\ watched' = os
  /\ UNCHANGED <<queue, attr, storage, os, browser>>

writeStoredTheme(next) == Stored(next, DEFAULT_THEME)

\* Off where the browser lacks the API and while data-motion says reduced.
shouldAnimateThemeChange == attr # "reduced" /\ browser.transitions

\* The switch turns the theme React last committed, whatever is waiting.
ToggleTheme ==
  LET next == IF theme = "dark" THEN "light" ELSE "dark" IN
  /\ mounted /\ cookie' = writeStoredTheme(next)
  /\ \/ /\ shouldAnimateThemeChange /\ Len(queue) < MaxQueue
        /\ queue' = Append(queue, next) /\ UNCHANGED <<theme, html>>
     \/ /\ ~shouldAnimateThemeChange
        /\ theme' = next /\ html' = next
        /\ UNCHANGED queue
  /\ UNCHANGED <<mounted, preference, stored, watched, attr, os, browser>>

\* A view transition calls back, in the order they were started.
Commit ==
  /\ queue # <<>> /\ theme' = Head(queue) /\ html' = Head(queue) /\ queue' = Tail(queue)
  /\ UNCHANGED <<mounted, preference, watched, attr, storage, os, browser>>

SetMotion(next) ==
  /\ mounted /\ preference' = next /\ stored' = Stored(next, "system")
  /\ UNCHANGED <<mounted, theme, html, queue, cookie, watched, attr, os, browser>>

preferenceForToggle == IF reduced THEN "full" ELSE "reduced"
ToggleMotion == SetMotion(preferenceForToggle)
UseSystem == preference # "system" /\ SetMotion("system")

\* Mutant: the effect runs at mount only.
MotionEffect_Once ==
  /\ mounted /\ attr = None /\ attr' = (IF reduced THEN "reduced" ELSE "full")
  /\ UNCHANGED <<mounted, theme, html, queue, preference, watched, storage, os, browser>>

\* useEffect on `reduced`: after a render, data-motion follows.
MotionEffect ==
  LET wanted == IF reduced THEN "reduced" ELSE "full" IN
  /\ mounted /\ attr # wanted /\ attr' = wanted
  /\ UNCHANGED <<mounted, theme, html, queue, preference, watched, storage, os, browser>>

\* The OS setting changes; the media query's listener hears of it later.
OsChanges ==
  /\ os' = ~os /\ UNCHANGED <<page, storage, browser>>

watchReducedMotion ==
  /\ mounted /\ watched # os /\ watched' = os
  /\ UNCHANGED <<mounted, theme, html, queue, preference, attr, storage, os, browser>>

\* Another tab of the site writes either preference.
OtherTab ==
  /\ \E t \in Themes, p \in Choices :
       /\ cookie' \in {cookie, Stored(t, DEFAULT_THEME)}
       /\ stored' \in {stored, Stored(p, "system")}
  /\ storage' # storage
  /\ UNCHANGED <<page, os, browser>>

Next ==
  \/ Reload \/ Mount \/ ToggleTheme \/ Commit \/ ToggleMotion \/ UseSystem
  \/ MotionEffect \/ OsChanges \/ watchReducedMotion \/ OtherTab

\* React flushes the effects of a render and the browser delivers the change
\* events of a media query and the callbacks of view transitions.
Fairness == WF_vars(MotionEffect) /\ WF_vars(watchReducedMotion) /\ WF_vars(Commit)

Spec == Init /\ [][Next]_vars /\ Fairness

----------------------------------------------------------------------------

\* Reduced motion, asked for in the page or by the OS and left so, is in the end
\* what the stylesheet sees.
ReducedIsHonoured ==
  /\ <>[](mounted /\ preference = "reduced") => <>[](attr = "reduced")
  /\ <>[](mounted /\ preference = "system" /\ os) => <>[](attr = "reduced")
=============================================================================
