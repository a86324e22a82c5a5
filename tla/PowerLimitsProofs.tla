--------------------------- MODULE PowerLimitsProofs ---------------------------
(* Theorems about the sliders, for words of every width.                    *)
EXTENDS PowerLimits, TLAPS

\* The cast keeps the numbers an i32 has, and makes the others negative.
LEMMA CastRange ==
  ASSUME NEW u \in Word
  PROVE  /\ AsInt(u) \in Int /\ AsInt(u) <= MaxInt
         /\ u <= MaxInt <=> AsInt(u) >= 0
         /\ u <= MaxInt => AsInt(u) = u
         /\ MaxInt < u => AsInt(u) = u - 2 * Half
  BY WordAssumption DEF Word, MaxWord, MaxInt, AsInt

\* A readable directory yields the numbers of a limit (read_by_name).
LEMMA ReadTyped ==
  ASSUME NEW d \in Attribute, Readable(d)
  PROVE  /\ ReadByName(d) \in AttrInfo
         /\ ReadByName(d).current = d.current
  <1>1. 0 \in Word /\ MaxWord \in Word
    BY WordAssumption DEF Word, MaxWord
  <1> QED
    BY <1>1 DEF Attribute, Readable, ReadByName, AttrInfo

\* Whatever the range, the numbers of the slider fit an i32.
LEMMA SliderTyped ==
  /\ \A info \in AttrInfo : FromAttr(info) \in Slider
  /\ NoSlider \in Slider
  <1>1. \A u \in Word : AsInt(u) \in I32
    BY WordAssumption DEF Word, MaxWord, MaxInt, AsInt, I32
  <1>2. \A i \in I32 : SaturatingSucc(i) \in I32
    BY WordAssumption DEF SaturatingSucc, MaxInt, I32
  <1>3. ASSUME NEW info \in AttrInfo PROVE FromAttr(info) \in Slider
    <2>1. /\ info.current \in Word /\ info.min \in Word
          /\ info.max \in Word
      BY DEF AttrInfo
    <2>2. Lower(info) \in I32 /\ Upper(info) \in I32
      BY <1>1, <1>2, <2>1 DEF Lower, Upper
    <2>3. Clamp(AsInt(info.current), Lower(info), Upper(info)) \in I32
      BY <1>1, <2>1, <2>2 DEF Clamp
    <2> QED
      BY <2>2, <2>3 DEF FromAttr, Slider
  <1>4. NoSlider \in Slider
    BY WordAssumption DEF NoSlider, Slider, I32, MaxInt
  <1> QED
    BY <1>3, <1>4

\* A position of a slider that fits an i32 is asked for as a word.
LEMMA PositionTyped ==
  ASSUME NEW slider \in Slider, NEW i \in Positions(slider)
  PROVE  AsWord(i) \in Word
  <1>1. slider.min \in I32 /\ slider.max \in I32
    BY DEF Slider
  <1> QED
    BY <1>1, WordAssumption DEF Positions, AsWord, I32, MaxInt, Word, MaxWord

\* A limit with a proper range has exactly that range on its slider (state.rs,
\* from_attr), with the value in it, and every position the user can choose is
\* one that the range check of write_by_name accepts.
THEOREM SliderIsExact ==
  ASSUME NEW info \in AttrInfo, Sensible(info)
  PROVE  LET slider == FromAttr(info) IN
         /\ slider.min = info.min /\ slider.max = info.max
         /\ slider.value \in Positions(slider)
         /\ \A i \in Positions(slider) : InRange(info, AsWord(i))
  <1>1. info.min \in Word /\ info.max \in Word /\ info.current \in Word
    BY DEF AttrInfo
  <1>2. info.min \in Nat /\ info.max \in Nat /\ info.min < info.max
          /\ info.max <= MaxInt /\ info.min <= MaxInt /\ MaxInt \in Int
    BY <1>1, WordAssumption DEF Sensible, Word, MaxWord, MaxInt
  <1>3. Lower(info) = info.min /\ Upper(info) = info.max
    BY <1>1, <1>2, CastRange DEF Lower, Upper
  <1>4. Clamp(AsInt(info.current), Lower(info), Upper(info))
          \in info.min..info.max
    BY <1>1, <1>2, <1>3, CastRange DEF Clamp
  <1>5. \A i \in info.min..info.max : InRange(info, AsWord(i))
    BY <1>2 DEF InRange, AsWord
  <1> QED
    BY <1>3, <1>4, <1>5 DEF FromAttr, Positions

\* The dashboard panics (Ord::clamp asserts that its bounds are in order) for a
\* range whose upper end alone does not fit an i32, and for no other: a range
\* upside down, of one value or all beyond an i32 is survived.
THEOREM PanicsExactly ==
  ASSUME NEW info \in AttrInfo
  PROVE  Panics(info) <=> Overturned(info)
  <1>1. info.min \in Word /\ info.max \in Word
    BY DEF AttrInfo
  <1>2. info.min \in Int /\ info.max \in Int /\ MaxInt \in Int
          /\ info.min >= 0 /\ info.max < 2 * Half
    BY <1>1, WordAssumption DEF Word, MaxWord, MaxInt
  <1>3. CASE info.max > info.min
    <2>1. Upper(info) = AsInt(info.max) /\ Lower(info) = AsInt(info.min)
      BY <1>3 DEF Upper, Lower
    <2>2. CASE info.max <= MaxInt
      BY <1>1, <1>2, <1>3, <2>1, <2>2, CastRange DEF Panics, Overturned
    <2>3. CASE MaxInt < info.min
      BY <1>1, <1>2, <1>3, <2>1, <2>3, CastRange, WordAssumption
         DEF Panics, Overturned
    <2>4. CASE info.min <= MaxInt /\ MaxInt < info.max
      BY <1>1, <1>2, <1>3, <2>1, <2>4, CastRange, WordAssumption
         DEF Panics, Overturned
    <2> QED
      BY <1>2, <2>2, <2>3, <2>4
  <1>4. CASE ~(info.max > info.min)
    <2>1. Upper(info) = SaturatingSucc(Lower(info))
      BY <1>4 DEF Upper
    <2>2. Lower(info) \in Int
      BY <1>1, CastRange DEF Lower
    <2>3. ~Panics(info)
      BY <2>1, <2>2 DEF Panics, SaturatingSucc
    <2> QED
      BY <1>2, <1>4, <2>3 DEF Overturned
  <1> QED
    BY <1>3, <1>4
=============================================================================
