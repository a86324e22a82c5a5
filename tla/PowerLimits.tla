------------------------------ MODULE PowerLimits ------------------------------
(***************************************************************************)
(* The numbers of a power limit: firmware_attrs.rs reads them as u32 and   *)
(* checks requests against them, the dashboard (state.rs, SliderBounds)    *)
(* shows them on a slider in i32.  The width is a parameter: Half is 2^31  *)
(* in the program.  No state; LegionCtl puts these operators to use.       *)
(***************************************************************************)
EXTENDS Integers

CONSTANTS
    Half,      \* half of the numbers a word can hold
    Missing    \* a sysfs file that is absent or does not hold a number

ASSUME WordAssumption == Half \in Nat \ {0} /\ Missing \notin Int

MaxWord == 2 * Half - 1
Word    == 0..MaxWord
MaxInt  == Half - 1

\* An attribute directory of the firmware-attributes class, as it is.
Attribute == [current : Word \cup {Missing},
              min     : Word \cup {Missing},
              max     : Word \cup {Missing}]

\* read_by_name needs current_value alone, and makes up for the others.
Readable(d) == d.current # Missing

ReadByName(d) ==
    [current |-> d.current,
     min     |-> IF d.min = Missing THEN 0 ELSE d.min,
     max     |-> IF d.max = Missing THEN MaxWord ELSE d.max]

AttrInfo == [current : Word, min : Word, max : Word]

InRange(info, w) == info.min <= w /\ w <= info.max

-----------------------------------------------------------------------------
(* The slider.                                                             *)

\* `u as i32`: two's complement.
AsInt(u) == IF u < Half THEN u ELSE u - 2 * Half

I32 == -Half..MaxInt

\* SliderBounds.
Slider == [value : I32, min : I32, max : I32]

\* `max(0) as u32`: what the dashboard asks for at a position.
AsWord(i) == IF i < 0 THEN 0 ELSE i

SaturatingSucc(i) == IF i = MaxInt THEN i ELSE i + 1

Lower(info) == AsInt(info.min)

\* Faulty: the range is taken as the firmware states it.
UpperAsStated(info) == AsInt(info.max)

Upper(info) == IF info.max > info.min THEN AsInt(info.max)
               ELSE SaturatingSucc(Lower(info))

Clamp(i, low, high) == IF i < low THEN low ELSE IF i > high THEN high ELSE i

\* Ord::clamp asserts that its bounds are in order.
Panics(info) == Upper(info) < Lower(info)

FromAttr(info) ==
    [value |-> Clamp(AsInt(info.current), Lower(info), Upper(info)),
     min   |-> Lower(info),
     max   |-> Upper(info)]

\* SliderBounds::default, for a limit that GetPpt does not list.
NoSlider == [value |-> 0, min |-> 0, max |-> 0]

\* Where the user can put it (custom.slint, value-at).
Positions(slider) == slider.min..slider.max

-----------------------------------------------------------------------------

\* The ranges the slider is right for: not empty and within an i32.
Sensible(info) == info.min < info.max /\ info.max <= MaxInt

\* Those that stop the dashboard: the cast makes of a large maximum, or of
\* one that is missing, a number below the minimum.
Overturned(info) == info.min <= MaxInt /\ MaxInt < info.max
=============================================================================
