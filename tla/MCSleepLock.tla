---------------------------- MODULE MCSleepLock -----------------------------
EXTENDS SleepLock
=============================================================================
