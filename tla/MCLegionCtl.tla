----------------------------- MODULE MCLegionCtl -----------------------------
(* The machines and commands that TLC asks about.                           *)
EXTENDS LegionCtl

CONSTANTS quiet, custom, odd, legion, standard, long_life, fast, spl, fppt,
          raw_attr, gamezone, x1

\* The second handler knows no Custom, and a name that no parser knows.
KnownChoices == [d \in {Gamezone, legion} |->
                   IF d = Gamezone THEN {quiet, custom} ELSE {quiet, odd}]

Range(low, high, now) == [current |-> now, min |-> low, max |-> high]

Bare == [handler |-> [i \in Slots |-> IF i = 0 THEN Gamezone ELSE NoDevice],
         modules |-> {}, battery |-> None, toggle |-> None, led |-> None,
         attrs   |-> [a \in Attrs |-> None], gated |-> TRUE]

With(a, range, m) == [m EXCEPT !.attrs[a] = range]

\* Handlers come and go, in either order.
Hotplug ==
    [Bare EXCEPT !.modules = {Gamezone, legion}]

\* The other handler alone, with a limit its driver does not gate.
Foreign == [With(spl, Range(1, 2, 1), Bare) EXCEPT
              !.handler = [i \in Slots |-> IF i = 1 THEN legion
                                           ELSE NoDevice],
              !.gated = FALSE]

\* Two limits, one of them with a range of one value.
Ordinary(gated) ==
    With(spl, Range(1, 2, 1), With(fppt, Range(2, 2, 2),
                                   [Bare EXCEPT !.gated = gated]))

\* An attribute the code does not know, without an upper end.
Raw == With(raw_attr, Range(2, Missing, 2), Bare)

\* Ranges upside down, without ends, beyond an i32, and a value unread.
Odd1 == With(spl, Range(3, 1, 1), With(fppt, Range(0, 2, Missing), Bare))
Odd2 == With(spl, Range(1, 3, 3), With(fppt, Range(1, Missing, 1), Bare))
Odd3 == With(spl, Range(5, 6, 5), With(fppt, Range(Missing, 2, 7), Bare))
Odd4 == With(spl, Range(3, 5, 4), With(raw_attr, Range(0, 1, 0), Bare))

\* The other settings.
Switches == [Bare EXCEPT !.battery = standard, !.toggle = TRUE, !.led = 0]

TestMachines == {Hotplug, Foreign, Ordinary(TRUE), Ordinary(FALSE),
                 Raw, Odd1, Odd2, Odd3, Odd4, Switches, Bare}

Set(op, args) == {[op |-> op, arg |-> v] : v \in args}

TestCommands ==
    Set("profile", {quiet, custom, Junk})
    \cup Set("battery", {long_life, fast})
    \cup Set("toggle", {FALSE})
    \cup Set("backlight", {1, 2})
    \cup {[op |-> "ppt", attr |-> p[1], arg |-> p[2]] :
            p \in {<<spl, 2>>, <<spl, 4>>, <<raw_attr, 4>>, <<Junk, 2>>}}
    \cup {[op |-> "show", what |-> s] : s \in Setters}
    \cup {[op |-> "status"]}
=============================================================================
