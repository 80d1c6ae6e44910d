---------------------------- MODULE MCRuntimeClient ----------------------------
\* One submission and one operation of another client, two runtimes.
EXTENDS RuntimeClient, TLC
================================================================================
