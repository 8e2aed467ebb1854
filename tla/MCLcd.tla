------------------------------- MODULE MCLcd -------------------------------
(***************************************************************************)
(* A screen of two lines of two characters in a memory of three places a   *)
(* line; every text of up to MaxText characters, and numbers.              *)
(***************************************************************************)
EXTENDS Lcd, SequencesExt
CONSTANT MaxText
MCTexts == SeqOf({65, 66, Newline}, MaxText)
MCCalls == {<<Str(t)>> : t \in MCTexts}
           \cup {<<Dec(0)>>, <<Dec(10), Lit(Newline), Dec(7)>>, <<Dec(32767), Str(<<66>>)>>,
                 <<Fix(0)>>, <<Fix(10)>>, <<Fix(999)>>, <<Fix(1000), Lit(37)>>, <<Fix(20450)>>}
\* LCD_printf("%d %f", -5, 1.5), as the standard printf would be called; the int
\* that is found in place of 1.5 is one of these.
MCStandards == {<<Dec(-5), Lit(32), Double(1500, x)>> : x \in {0, 7}}
=============================================================================
