------------------------------- MODULE MCLogUtils ------------------------------
\* LogUtils for TLC, with the values of LogUtils.cfg: threads are not made symmetric,
\* which would not be sound for the liveness property.
EXTENDS LogUtils
================================================================================
