------------------------------- MODULE Sel4cp -------------------------------
(***************************************************************************)
(* What the seL4 core platform gives the two protection domains: a         *)
(* notification word each, in which signals of one channel coalesce, and   *)
(* an event loop that takes the whole word at once and then calls          *)
(* notified() for its channels in ascending order.                         *)
(***************************************************************************)
EXTENDS Integers

SERVER_NOTIFY_ID == 1   \* the driver's end of the channel to the server
DRIVER_NOTIFY_ID == 1   \* the server's end
IRQ_I2C_M2       == 2
IRQ_I2C_M2_TO    == 3
IRQ_I2C_M3       == 4
IRQ_I2C_M3_TO    == 5

DriverChannel == SERVER_NOTIFY_ID .. IRQ_I2C_M3_TO
ServerChannel == {DRIVER_NOTIFY_ID}

VARIABLES
  driverWord,   \* channels signalled to the driver since it last looked
  serverWord    \* channels signalled to the server since it last looked

wordVars == <<driverWord, serverWord>>

notify_driver(channel) == driverWord' = driverWord \cup {channel}
notify_server(channel) == serverWord' = serverWord \cup {channel}

=============================================================================
