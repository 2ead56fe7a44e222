--------------------------- MODULE DataLinkCodes ---------------------------
(***************************************************************************)
(* The control bytes of the data link frames and the return codes of the   *)
(* frame functions (data_link_codes.h, data_link_io.h), and the two        *)
(* functions that put the parity of a frame number into a control byte.    *)
(***************************************************************************)
EXTENDS Integers

C_SET  == 7
C_DISC == 11
C_UA   == 3
C_RR   == 1
C_REJ  == 7

SUCCESS_CODE  == 0
ERROR_CODE    == -1
TIMEOUT_CODE  == -2
BADFRAME_CODE == -3

\* Mutants: the frame number not reduced to one bit; not put in the byte at all.
WideControlByte(n) == 64 * n
UnnumberedControlByte(n) == 0

\* The transmitter's number of a data frame: bit 6 is the parity of n.
data_control_byte(n) == IF n % 2 = 0 THEN 0 ELSE 64

\* Mutant: every answer is an RR.
AlwaysReady(n, accepted) == C_RR + (IF n % 2 = 0 THEN 128 ELSE 0)

\* The receiver's answer to data frame n: RR or REJ, bit 7 set when n is even.
data_reply_byte(n, accepted) ==
  (IF accepted THEN C_RR ELSE C_REJ) + (IF n % 2 = 0 THEN 128 ELSE 0)

\* f_send_acknowledged_frame's test (control & 7) == C_REJ. It holds for both
\* REJ bytes and for SET, whose code equals REJ's.
IsReject(control) == control % 8 = C_REJ
=============================================================================
