---------------------------- MODULE MC_I2cEeprom ----------------------------
EXTENDS I2cEeprom
\* The last address, after which it goes on at the first, and another.
MCAddresses(n) == {1, n - 1}
=============================================================================
