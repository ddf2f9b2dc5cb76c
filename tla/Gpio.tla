-------------------------------- MODULE Gpio --------------------------------
(***************************************************************************)
(* The GPIO block, src/src/io/gpio.{h,cpp}.  The host sets the input pins; *)
(* a change of an unmasked pin is latched in the status register, which    *)
(* software clears by writing ones.  Words are sets of pins.  The          *)
(* direction and output registers hold values nothing reads, and are left  *)
(* out.                                                                    *)
(***************************************************************************)
EXTENDS Integers

CONSTANT Pins           \* the pins of the host (32)

VARIABLES input, irq_mask, irq_status,
          irq           \* the level last given to on_irq

gpioVars == <<input, irq_mask, irq_status, irq>>

\* check_irq(): the line is a level, recomputed after every change.
check_irq == irq' = (irq_status' \cap irq_mask' # {})
-----------------------------------------------------------------------------
Init == input = {} /\ irq_mask = {} /\ irq_status = {} /\ irq = FALSE

\* The pins that differ: old ^ pins
Changed(old, pins) == (old \ pins) \cup (pins \ old)

\* Mutant of set_input: only a pin that goes up is latched.
set_input_RisingOnly(pins) ==
    /\ input' = pins
    /\ irq_status' = irq_status \cup ((pins \ input) \cap irq_mask)
    /\ UNCHANGED irq_mask
    /\ check_irq

\* set_input(): a change is latched only where the mask allows it now.
set_input(pins) ==
    /\ input' = pins
    /\ irq_status' = irq_status \cup (Changed(input, pins) \cap irq_mask)
    /\ UNCHANGED irq_mask
    /\ check_irq

\* A new mask may uncover or hide what has been latched.
WriteMask(word) ==
    /\ irq_mask' = word
    /\ UNCHANGED <<input, irq_status>>
    /\ check_irq

\* Write-1-to-clear.
WriteGpioStatus(word) ==
    /\ irq_status' = irq_status \ word
    /\ UNCHANGED <<input, irq_mask>>
    /\ check_irq
=============================================================================
