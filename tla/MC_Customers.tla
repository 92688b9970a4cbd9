----------------------------- MODULE MC_Customers -----------------------------
(* A small instance of Customers: two orders with one phone number.        *)
EXTENDS Customers
===============================================================================
